---- MODULE Spec2Model ----
(***************************************************************************)
(* The ledger / bookkeeping engine of the accounting blueprint            *)
(* (app/blueprints/accounting/routes.py): chart of accounts, per-client   *)
(* and per-vehicle sub-ledgers, journal posting with the books-lock gate, *)
(* the catalog of business postings, and the report aggregations.         *)
(*                                                                         *)
(* Money is counted in baisa (1/1000 OMR), the scale of the Numeric(_,3)  *)
(* columns.  Ids are positive integers; 0 stands for Python's None, which *)
(* the code tests with "if not customer_id".  Account codes are sequences *)
(* of characters so that str formatting and SQL LIKE are computed.        *)
(***************************************************************************)
EXTENDS Integers, Sequences, FiniteSets, TLC

\* ---- bounds of the model ----
MaxAmount == 2
MaxEntries == 2

\* ---- constants of the program ----
ClientPad == 5
VehiclePad == 6
\* OMR_EXCHANGE_RATE, in thousandths
DefaultRateMilli == 385

None == 0
NoLock == -1

\* The Customer and Vehicle rows, and the instants the clock shows.
Customers == {1}
Vehicles == {1}
Times == {0, 1}
Amounts == 1..MaxAmount

\* flask_login's current_user.id of the accountant
CurrentUser == 1

\* Vehicle.owner_customer_id: odd vehicles belong to customer 1, even ones to nobody.
VehicleOwner(v) == IF v % 2 = 1 THEN 1 ELSE None

\* ---- account codes ----
A100 == <<"A", "1", "0", "0">>
A110 == <<"A", "1", "1", "0">>
A150 == <<"A", "1", "5", "0">>
A200 == <<"A", "2", "0", "0">>
A300 == <<"A", "3", "0", "0">>
L200 == <<"L", "2", "0", "0">>
L210 == <<"L", "2", "1", "0">>
R100 == <<"R", "1", "0", "0">>
R150 == <<"R", "1", "5", "0">>
R300 == <<"R", "3", "0", "0">>
E200 == <<"E", "2", "0", "0">>
E210 == <<"E", "2", "1", "0">>
E220 == <<"E", "2", "2", "0">>
E230 == <<"E", "2", "3", "0">>

Digits == <<"0", "1", "2", "3", "4", "5", "6", "7", "8", "9">>

RECURSIVE DecimalDigits(_)
DecimalDigits(n) ==
    IF n < 10 THEN <<Digits[n + 1]>>
    ELSE DecimalDigits(n \div 10) \o <<Digits[(n % 10) + 1]>>

RECURSIVE ZeroPad(_, _)
ZeroPad(s, width) == IF Len(s) >= width THEN s ELSE ZeroPad(<<"0">> \o s, width)

\* f"{n:0{width}d}"
FormatInt(n, width) == ZeroPad(DecimalDigits(n), width)

\* f"{parent}-C{cid:05d}"
ClientCode(parent, cid) == parent \o <<"-", "C">> \o FormatInt(cid, ClientPad)

\* A vehicle code written the way of a client code.
VehicleCodeAsClient(parent, vid) == ClientCode(parent, vid)

\* f"{parent}-V{vid:06d}"
VehicleCode(parent, vid) == parent \o <<"-", "V">> \o FormatInt(vid, VehiclePad)

\* Account.code.like(f"{prefix}%")
StartsWith(code, prefix) ==
    /\ Len(code) >= Len(prefix)
    /\ SubSeq(code, 1, Len(prefix)) = prefix

\* ---- the database ----
VARIABLES
    now,            \* datetime.utcnow()
    lockUntil,      \* Setting.books_locked_until, NoLock when unset
    accounts,       \* Account rows, by id
    clientStructs,  \* ClientAccountStructure rows
    vehicleStructs, \* VehicleAccountStructure rows
    entries,        \* JournalEntry rows with their lines
    nextEntryId,
    nextLineId,
    deposits,       \* CustomerDeposit rows, by id
    expenses,       \* OperationalExpense rows, by id
    invoices,       \* Invoice rows, by id
    payments,       \* Payment rows, by id
    rates,          \* ExchangeRate rows, by id
    lastCall,       \* the operation called last, its arguments and its result
    prevCall,       \* the operation called before that
    requests        \* the requests in flight, each with its own session

vars == <<now, lockUntil, accounts, clientStructs, vehicleStructs, entries,
          nextEntryId, nextLineId, deposits, expenses, invoices, payments,
          rates, lastCall, prevCall, requests>>

tables == <<now, lockUntil, accounts, clientStructs, vehicleStructs, entries,
            nextEntryId, nextLineId, deposits, expenses, invoices, payments,
            rates>>

Acct(code, type) == [code |-> code, type |-> type, client_id |-> None, vehicle_id |-> None]

\* The chart seeded by the GL migration.
SeededChart ==
    << Acct(A100, "ASSET"), Acct(A110, "ASSET"), Acct(A200, "ASSET"),
       Acct(L200, "LIABILITY"), Acct(L210, "LIABILITY"),
       Acct(R100, "REVENUE"), Acct(R150, "REVENUE"), Acct(R300, "REVENUE"),
       Acct(E200, "EXPENSE"), Acct(E210, "EXPENSE") >>

\* The tables as one value, so that the helper functions of the code, which
\* read and write the session, are functions from database to database.
DB ==
    [ now |-> now, lockUntil |-> lockUntil, accounts |-> accounts,
      clientStructs |-> clientStructs, vehicleStructs |-> vehicleStructs,
      entries |-> entries, nextEntryId |-> nextEntryId, nextLineId |-> nextLineId,
      deposits |-> deposits, expenses |-> expenses, invoices |-> invoices,
      payments |-> payments, rates |-> rates ]

Commit(db) ==
    \E s \in {db} :
        /\ now' = s.now
        /\ lockUntil' = s.lockUntil
        /\ accounts' = s.accounts
        /\ clientStructs' = s.clientStructs
        /\ vehicleStructs' = s.vehicleStructs
        /\ entries' = s.entries
        /\ nextEntryId' = s.nextEntryId
        /\ nextLineId' = s.nextLineId
        /\ deposits' = s.deposits
        /\ expenses' = s.expenses
        /\ invoices' = s.invoices
        /\ payments' = s.payments
        /\ rates' = s.rates

\* The value of an expression that has one: The({e(x) : x \in {d}}) is e with
\* x standing for the value of d, as a local variable assigned once.
The(S) == CHOOSE x \in S : TRUE

\* First index of seq whose element satisfies Test, 0 when there is none:
\* query(...).filter(...).first()
First(seq, Test(_)) ==
    IF \E i \in 1..Len(seq) : Test(seq[i])
    THEN CHOOSE i \in 1..Len(seq) : Test(seq[i]) /\ \A j \in 1..(i - 1) : ~Test(seq[j])
    ELSE None

\* _get_account: the id of the account with this code, None when missing
GetAccount(accts, code) == LET Is(a) == a.code = code IN First(accts, Is)

\* ensure_account, the closure of both provisioners
EnsureAccount(s, code, typ, client_id, vehicle_id) ==
    [s EXCEPT !.accounts =
        IF GetAccount(@, code) # None THEN @
        ELSE Append(@, [code |-> code, type |-> typ,
                        client_id |-> client_id, vehicle_id |-> vehicle_id])]

FindClientStruct(s, cid) == LET Is(m) == m.customer_id = cid IN First(s.clientStructs, Is)

FindVehicleStruct(s, vid) == LET Is(m) == m.vehicle_id = vid IN First(s.vehicleStructs, Is)

\* A provisioner that does not look for an existing mapping first.
EnsureClientAccountsUnchecked(s, cid) ==
    [s EXCEPT !.clientStructs = Append(@,
        [ customer_id |-> cid,
          deposit_account_code |-> ClientCode(L200, cid),
          auction_account_code |-> ClientCode(A150, cid),
          service_revenue_account_code |-> ClientCode(R300, cid),
          logistics_expense_account_code |-> ClientCode(E200, cid),
          receivable_account_code |-> ClientCode(A300, cid) ])]

\* Provisioning that numbers the codes by the size of the chart it finds.
EnsureClientAccountsNumbered(s, cid) ==
    IF FindClientStruct(s, cid) # None THEN s
    ELSE
        LET n == Len(s.accounts)
            dep == ClientCode(L200, n)
            auc == ClientCode(A150, n)
            srv == ClientCode(R300, n)
            log == ClientCode(E200, n)
            ar  == ClientCode(A300, n)
            s1 == EnsureAccount(s, dep, "LIABILITY", cid, None)
            s2 == EnsureAccount(s1, auc, "ASSET", cid, None)
            s3 == EnsureAccount(s2, srv, "REVENUE", cid, None)
            s4 == EnsureAccount(s3, log, "EXPENSE", cid, None)
            s5 == EnsureAccount(s4, ar, "ASSET", cid, None)
        IN [s5 EXCEPT !.clientStructs = Append(@,
               [ customer_id |-> cid,
                 deposit_account_code |-> dep,
                 auction_account_code |-> auc,
                 service_revenue_account_code |-> srv,
                 logistics_expense_account_code |-> log,
                 receivable_account_code |-> ar ])]

\* _ensure_client_accounts: the database after the call; the mapping row it
\* returns is then the one FindClientStruct finds.
EnsureClientAccounts(s, cid) ==
    IF FindClientStruct(s, cid) # None THEN s
    ELSE
        LET dep == ClientCode(L200, cid)
            auc == ClientCode(A150, cid)
            srv == ClientCode(R300, cid)
            log == ClientCode(E200, cid)
            ar  == ClientCode(A300, cid)
            s1 == EnsureAccount(s, dep, "LIABILITY", cid, None)
            s2 == EnsureAccount(s1, auc, "ASSET", cid, None)
            s3 == EnsureAccount(s2, srv, "REVENUE", cid, None)
            s4 == EnsureAccount(s3, log, "EXPENSE", cid, None)
            s5 == EnsureAccount(s4, ar, "ASSET", cid, None)
        IN [s5 EXCEPT !.clientStructs = Append(@,
               [ customer_id |-> cid,
                 deposit_account_code |-> dep,
                 auction_account_code |-> auc,
                 service_revenue_account_code |-> srv,
                 logistics_expense_account_code |-> log,
                 receivable_account_code |-> ar ])]

\* _ensure_vehicle_accounts
EnsureVehicleAccounts(s, vid) ==
    IF FindVehicleStruct(s, vid) # None THEN s
    ELSE
        LET owner == VehicleOwner(vid)
            dep == VehicleCode(L200, vid)
            auc == VehicleCode(A150, vid)
            frt == VehicleCode(E200, vid)
            cst == VehicleCode(E220, vid)
            com == VehicleCode(R300, vid)
            str == VehicleCode(E230, vid)
            s1 == EnsureAccount(s, dep, "LIABILITY", owner, vid)
            s2 == EnsureAccount(s1, auc, "ASSET", owner, vid)
            s3 == EnsureAccount(s2, frt, "EXPENSE", owner, vid)
            s4 == EnsureAccount(s3, cst, "EXPENSE", owner, vid)
            s5 == EnsureAccount(s4, com, "REVENUE", owner, vid)
            s6 == EnsureAccount(s5, str, "EXPENSE", owner, vid)
        IN [s6 EXCEPT !.vehicleStructs = Append(@,
               [ vehicle_id |-> vid,
                 client_id |-> owner,
                 deposit_account_code |-> dep,
                 auction_account_code |-> auc,
                 freight_account_code |-> frt,
                 customs_account_code |-> cst,
                 commission_account_code |-> com,
                 storage_account_code |-> str ])]

\* _get_client_account_code: [s |-> database after the call, code |-> result]
GetClientAccountCode(s, customer_id, kind, default_code) ==
    IF customer_id = None THEN [s |-> s, code |-> default_code]
    ELSE IF FindClientStruct(s, customer_id) = None /\ customer_id \notin Customers
    THEN [s |-> s, code |-> default_code]
    ELSE The({
        LET cas == s1.clientStructs[FindClientStruct(s1, customer_id)]
        IN [ s |-> s1,
             code |-> CASE kind = "deposit" -> cas.deposit_account_code
                        [] kind = "auction" -> cas.auction_account_code
                        [] kind = "service" -> cas.service_revenue_account_code
                        [] kind = "logistics" -> cas.logistics_expense_account_code
                        [] kind = "receivable" -> cas.receivable_account_code
                        [] OTHER -> default_code ]
        : s1 \in {EnsureClientAccounts(s, customer_id)} })

\* _get_vehicle_account_code
GetVehicleAccountCode(s, vehicle_id, kind, default_code) ==
    IF vehicle_id = None THEN [s |-> s, code |-> default_code]
    ELSE IF FindVehicleStruct(s, vehicle_id) = None /\ vehicle_id \notin Vehicles
    THEN [s |-> s, code |-> default_code]
    ELSE The({
        LET vas == s1.vehicleStructs[FindVehicleStruct(s1, vehicle_id)]
        IN [ s |-> s1,
             code |-> CASE kind = "deposit" -> vas.deposit_account_code
                        [] kind = "auction" -> vas.auction_account_code
                        [] kind = "freight" -> vas.freight_account_code
                        [] kind = "customs" -> vas.customs_account_code
                        [] kind = "commission" -> vas.commission_account_code
                        [] kind = "storage" -> vas.storage_account_code
                        [] OTHER -> default_code ]
        : s1 \in {EnsureVehicleAccounts(s, vehicle_id)} })

\* The nested call every catalog operation makes,
\*   _get_vehicle_account_code(vehicle_id, vkind,
\*       _get_client_account_code(customer_id, ckind, default))
\* Python evaluates the inner call first, so the client is provisioned even
\* when the vehicle's code is the one used.
SubledgerCode(s, customer_id, vehicle_id, ckind, vkind, default_code) ==
    The({ GetVehicleAccountCode(c.s, vehicle_id, vkind, c.code)
          : c \in {GetClientAccountCode(s, customer_id, ckind, default_code)} })

\* ---- the journal posting engine ----

\* A guard that leaves the lock date itself outside the locked period.
LockStatusBefore(s, status) ==
    IF s.lockUntil # NoLock /\ s.now < s.lockUntil THEN "pending" ELSE status

\* The period lock guard at the head of _post_journal.
LockStatus(s, status) ==
    IF s.lockUntil # NoLock /\ s.now <= s.lockUntil THEN "pending" ELSE status

\* A loop that stops at the first missing account instead of skipping it.
RECURSIVE StoreLinesUntilMissing(_, _, _)
StoreLinesUntilMissing(accts, lines, lid) ==
    IF lines = <<>> THEN <<>>
    ELSE
        LET l == Head(lines)
            acc == GetAccount(accts, l[1])
        IN IF acc = None THEN <<>>
           ELSE << [id |-> lid, account_id |-> acc, debit |-> l[2], credit |-> l[3]] >>
                \o StoreLinesUntilMissing(accts, Tail(lines), lid + 1)

\* The for-loop of _post_journal over the (code, debit, credit) triples: the
\* JournalLine rows it adds, the first one with id lid.  A triple whose
\* account is missing is skipped.
RECURSIVE StoreLines(_, _, _)
StoreLines(accts, lines, lid) ==
    IF lines = <<>> THEN <<>>
    ELSE
        LET l == Head(lines)
            acc == GetAccount(accts, l[1])
        IN IF acc = None THEN StoreLines(accts, Tail(lines), lid)
           ELSE << [id |-> lid, account_id |-> acc, debit |-> l[2], credit |-> l[3]] >>
                \o StoreLines(accts, Tail(lines), lid + 1)

\* _post_journal
PostJournal(s, description, lines, customer_id, vehicle_id, invoice_id, is_client_fund, status) ==
    The({
    LET st == LockStatus(s, status)
        entry == [ id |-> s.nextEntryId,
                   entry_date |-> s.now,
                   description |-> description,
                   customer_id |-> customer_id,
                   vehicle_id |-> vehicle_id,
                   invoice_id |-> invoice_id,
                   is_client_fund |-> is_client_fund,
                   status |-> IF st = "" THEN "approved" ELSE st,
                   approved_at |-> NoLock,
                   approved_by_user_id |-> None,
                   lines |-> stored ]
    IN [s EXCEPT !.entries = Append(@, entry),
                 !.nextEntryId = @ + 1,
                 !.nextLineId = @ + Len(stored)]
    : stored \in {StoreLines(s.accounts, lines, s.nextLineId)} })

\* ---- report aggregations ----

\* JournalLine joined to JournalEntry and Account, in (entry id, line id) order.
RECURSIVE JoinedLines(_, _)
JoinedLines(es, accts) ==
    IF es = <<>> THEN <<>>
    ELSE [i \in 1..Len(Head(es).lines) |->
            [ entry |-> Head(es),
              line |-> Head(es).lines[i],
              code |-> accts[Head(es).lines[i].account_id].code ]]
         \o JoinedLines(Tail(es), accts)

RECURSIVE SumInts(_)
SumInts(xs) == IF xs = <<>> THEN 0 ELSE Head(xs) + SumInts(Tail(xs))

\* func.coalesce(func.sum(...), 0) over the rows of a query
SumSeq(rows, Val(_)) == SumInts([i \in 1..Len(rows) |-> Val(rows[i])])

\* The aggregation without its is_client_fund filter.
RevenueOfAllEntries(es, accts) ==
    LET Val(r) == IF StartsWith(r.code, <<"R">>) THEN r.line.credit - r.line.debit ELSE 0
    IN SumSeq(JoinedLines(es, accts), Val)

\* The aggregation with debit and credit exchanged.
RevenueDebitSide(es, accts) ==
    LET Val(r) == IF StartsWith(r.code, <<"R">>) /\ r.entry.is_client_fund = FALSE
                  THEN r.line.debit - r.line.credit ELSE 0
    IN SumSeq(JoinedLines(es, accts), Val)

\* dashboard rev_total, the test's _sum_revenue, the body of the monthly P&L:
\* sum(credit - debit) where code LIKE 'R%' and is_client_fund IS FALSE
Revenue(es, accts) ==
    LET Val(r) == IF StartsWith(r.code, <<"R">>) /\ r.entry.is_client_fund = FALSE
                  THEN r.line.credit - r.line.debit ELSE 0
    IN SumSeq(JoinedLines(es, accts), Val)

\* query ... filter(JournalEntry.vehicle_id == vehicle_id)
\*       .order_by(entry_date.asc(), JournalEntry.id.asc(), JournalLine.id.asc())
RowBeforeById(a, b) ==
    \/ a.entry.id < b.entry.id
    \/ a.entry.id = b.entry.id /\ a.line.id < b.line.id

RowBefore(a, b) ==
    \/ a.entry.entry_date < b.entry.entry_date
    \/ /\ a.entry.entry_date = b.entry.entry_date
       /\ \/ a.entry.id < b.entry.id
          \/ a.entry.id = b.entry.id /\ a.line.id < b.line.id

\* ORDER BY over rows with distinct keys: the k-th row is the one with k - 1
\* rows before it.
OrderedRows(rows) ==
    [ k \in 1..Len(rows) |->
        rows[CHOOSE i \in 1..Len(rows) :
                Cardinality({j \in 1..Len(rows) : RowBefore(rows[j], rows[i])}) = k - 1] ]

\* The loop of vehicle_statement that builds the statement rows, carrying the
\* running balance.
RECURSIVE StatementRows(_, _)
StatementRows(rows, running) ==
    IF rows = <<>> THEN <<>>
    ELSE
        LET r == Head(rows)
            balance == running + (r.line.debit - r.line.credit)
        IN << [ date |-> r.entry.entry_date, entry_id |-> r.entry.id, line_id |-> r.line.id,
                account_code |-> r.code, debit |-> r.line.debit, credit |-> r.line.credit,
                balance |-> balance ] >>
           \o StatementRows(Tail(rows), balance)

\* vehicle_statement: the statement list
VehicleStatement(es, accts, vehicle_id) ==
    LET OfVehicle(r) == r.entry.vehicle_id = vehicle_id
    IN StatementRows(OrderedRows(SelectSeq(JoinedLines(es, accts), OfVehicle)), 0)

\* totals['outstanding_balance_omr']
OutstandingBalance(statement) ==
    IF statement = <<>> THEN 0 ELSE statement[Len(statement)].balance

\* A client-deposit balance that counts approved entries only.
ClientDepositsApproved(es, accts) ==
    LET Val(r) == IF StartsWith(r.code, L200) /\ r.entry.status = "approved"
                  THEN r.line.credit - r.line.debit ELSE 0
    IN SumSeq(JoinedLines(es, accts), Val)

\* dashboard client_deposits: sum(credit - debit) where code LIKE 'L200%'
ClientDeposits(es, accts) ==
    LET Val(r) == IF StartsWith(r.code, L200) THEN r.line.credit - r.line.debit ELSE 0
    IN SumSeq(JoinedLines(es, accts), Val)

Max(a, b) == IF a >= b THEN a ELSE b

\* reports, balance_sheet, sum_acct(prefix, exclude_client_fund):
\* sum(debit - credit) where code LIKE prefix%, over own-fund entries
\* ("true"), client-fund entries ("false") or all entries ("none")
SumAcct(es, accts, prefix, exclude_client_fund) ==
    LET rows == JoinedLines(es, accts)
    IN SumInts([k \in 1..Len(rows) |->
         IF /\ StartsWith(rows[k].code, prefix)
            /\ \/ exclude_client_fund = "none"
               \/ exclude_client_fund = "true" /\ rows[k].entry.is_client_fund = FALSE
               \/ exclude_client_fund = "false" /\ rows[k].entry.is_client_fund = TRUE
         THEN rows[k].line.debit - rows[k].line.credit ELSE 0])

\* reports, balance_sheet
BalanceSheet(es, accts) ==
    The({ [ assets |-> assets,
            client_deposits |-> client_deposits,
            other_liabilities |-> Max(0, liabilities_total - client_deposits),
            equity |-> assets - (client_deposits
                                 + Max(0, liabilities_total - client_deposits)) ]
          : assets \in {SumAcct(es, accts, <<"A">>, "true")},
            liabilities_total \in {0 - SumAcct(es, accts, <<"L">>, "none")},
            client_deposits \in {0 - SumAcct(es, accts, L200, "none")} })

\* ---- operations ----

\* What a caller sees of one call: the operation, the id or amount it was
\* about, and its result (an id, 1/0 for True/False, None).
Call(op, arg, ret) == [op |-> op, arg |-> arg, ret |-> ret]

NoCall == Call("", 0, 0)

\* A record_customer_deposit call keeps the two dashboard figures read just
\* before it, and is remembered for one more call.
DepositCall(deposit_id) ==
    [ op |-> "record_customer_deposit", arg |-> deposit_id, ret |-> deposit_id,
      deposits_before |-> ClientDeposits(entries, accounts),
      revenue_before |-> Revenue(entries, accounts) ]

\* A call that goes straight to _post_journal also keeps what it passed.
PostCall(op, lines, is_client_fund, status) ==
    [ op |-> op, arg |-> 0, ret |-> nextEntryId,
      lines |-> lines, is_client_fund |-> is_client_fund, status |-> status ]

Notes(call) ==
    /\ lastCall' = call
    /\ prevCall' = IF lastCall.op = "record_customer_deposit" THEN lastCall ELSE NoCall

\* A handler that runs from its first line to its commit with no other
\* request in between.
Record(call) ==
    /\ Notes(call)
    /\ UNCHANGED requests

CanPost ==
    (nextEntryId - 1)
      + Cardinality({i \in 1..Len(expenses) : ~expenses[i].paid})
      + Cardinality({i \in 1..Len(invoices) : invoices[i].total_omr = 0}) < MaxEntries

\* Lines a user types into the manual journal form: nothing, or a debit and
\* a credit, of one amount or of two.
ManualLineLists ==
    {<<>>, << <<A100, 2, 0>>, <<R300, 0, 1>> >>} \cup
    { << <<dc, x, 0>>, <<R300, 0, x>> >> : dc \in {A100, A300}, x \in Amounts }

\* Lines of the manual journal form on asset and liability accounts.
BalanceLineLists ==
    { << <<A100, x, 0>>, <<L210, 0, x>> >> : x \in Amounts } \cup
    { << <<L210, x, 0>>, <<A100, 0, x>> >> : x \in Amounts }

\* journals_new (POST)
JournalsNew(lines, is_client_fund) ==
    /\ CanPost
    /\ Commit(PostJournal(DB, "Manual journal", lines, None, None, None,
                          is_client_fund, "approved"))
    /\ Record(PostCall("journals_new", lines, is_client_fund, "approved"))

\* _post_journal called directly, as the tests do, with a status of the
\* caller's choice ("" is a caller passing None).
RequestedStatuses == {"approved", "rejected", ""}

PostJournalCall(x, vehicle_id, is_client_fund, status) ==
    /\ CanPost
    /\ LET lines == << <<A100, x, 0>>, <<R300, 0, x>> >>
       IN /\ Commit(PostJournal(DB, "Commission", lines,
                                None, vehicle_id, None, is_client_fund, status))
          /\ Record(PostCall("_post_journal", lines, is_client_fund, status))

\* An approval that records neither the approver nor the time.
JournalsApproveUnsigned(entry_id) ==
    /\ \E i \in 1..Len(entries) :
         /\ entries[i].id = entry_id
         /\ entries' = [entries EXCEPT ![i].status = "approved"]
    /\ Record(Call("journals_approve", 0, entry_id))
    /\ UNCHANGED <<now, lockUntil, accounts, clientStructs, vehicleStructs,
                   nextEntryId, nextLineId, deposits, expenses, invoices, payments,
                   rates>>

\* journals_approve
JournalsApprove(entry_id) ==
    /\ \E i \in 1..Len(entries) :
         /\ entries[i].id = entry_id
         /\ entries' = [entries EXCEPT ![i].status = "approved",
                                       ![i].approved_at = now,
                                       ![i].approved_by_user_id = CurrentUser]
    /\ Record(Call("journals_approve", 0, entry_id))
    /\ UNCHANGED <<now, lockUntil, accounts, clientStructs, vehicleStructs,
                   nextEntryId, nextLineId, deposits, expenses, invoices, payments,
            rates>>

\* journals_delete: the entry goes, and its lines with it (delete-orphan).
JournalsDelete(entry_id) ==
    /\ \E i \in 1..Len(entries) :
         /\ entries[i].id = entry_id
         /\ entries' = SubSeq(entries, 1, i - 1) \o SubSeq(entries, i + 1, Len(entries))
    /\ Record(Call("journals_delete", 0, entry_id))
    /\ UNCHANGED <<now, lockUntil, accounts, clientStructs, vehicleStructs,
                   nextEntryId, nextLineId, deposits, expenses, invoices, payments,
            rates>>

\* create_client_chart
CreateClientChart(client_id) ==
    /\ IF client_id = None \/ client_id \notin Customers
       THEN UNCHANGED tables /\ Record(Call("create_client_chart", client_id, None))
       ELSE \E s1 \in {EnsureClientAccounts(DB, client_id)} :
               /\ Commit(s1)
               /\ Record(Call("create_client_chart", client_id, FindClientStruct(s1, client_id)))

\* create_vehicle_chart
CreateVehicleChart(vehicle_id, client_id) ==
    /\ IF vehicle_id = None \/ vehicle_id \notin Vehicles
       THEN UNCHANGED tables /\ Record(Call("create_vehicle_chart", vehicle_id, None))
       ELSE \E s1 \in {EnsureVehicleAccounts(DB, vehicle_id)} :
               LET i == FindVehicleStruct(s1, vehicle_id)
                   s2 == IF client_id # None /\ s1.vehicleStructs[i].client_id # client_id
                         THEN [s1 EXCEPT !.vehicleStructs[i].client_id = client_id]
                         ELSE s1
               IN /\ Commit(s2)
                  /\ Record(Call("create_vehicle_chart", vehicle_id, i))

\* record_customer_deposit
RecordCustomerDepositFlag == TRUE

RecordCustomerDeposit(customer_id, amount_omr, vehicle_id) ==
    /\ CanPost
    /\ LET s0 == [DB EXCEPT !.deposits = Append(@,
                     [ customer_id |-> customer_id, vehicle_id |-> vehicle_id,
                       amount_omr |-> amount_omr, status |-> "held" ])]
       IN \E r \in {SubledgerCode(s0, customer_id, vehicle_id, "deposit", "deposit", L200)} :
            /\ Commit(PostJournal(r.s, "Customer deposit received",
                                  << <<A100, amount_omr, 0>>, <<r.code, 0, amount_omr>> >>,
                                  customer_id, vehicle_id, None,
                                  RecordCustomerDepositFlag, "approved"))
            /\ Record(DepositCall(Len(s0.deposits)))

\* A refund posted the way of the receipt.
RefundLinesAsReceipt(dep_code, amt) == << <<A100, amt, 0>>, <<dep_code, 0, amt>> >>

\* A refund that takes the money out of the deposit account and credits nothing.
RefundLinesOneSided(dep_code, amt) == << <<dep_code, amt, 0>>, <<A100, 0, 0>> >>

\* refund_customer_deposit
RefundLines(dep_code, amt) == << <<dep_code, amt, 0>>, <<A100, 0, amt>> >>

\* A refund that posts the reversal and leaves the deposit held.
RefundCustomerDepositStillHeld(deposit_id) ==
    /\ (deposit_id \in 1..Len(deposits) /\ deposits[deposit_id].status = "held") => CanPost
    /\ IF deposit_id \notin 1..Len(deposits) \/ deposits[deposit_id].status # "held"
       THEN UNCHANGED tables /\ Record(Call("refund_customer_deposit", deposit_id, 0))
       ELSE LET dep == deposits[deposit_id]
            IN \E r \in {SubledgerCode(DB, dep.customer_id, dep.vehicle_id,
                                        "deposit", "deposit", L200)} :
                 /\ Commit(PostJournal(r.s, "Customer deposit refunded",
                                       RefundLines(r.code, dep.amount_omr),
                                       dep.customer_id, dep.vehicle_id, None, TRUE, "approved"))
                 /\ Record(Call("refund_customer_deposit", deposit_id, 1))

\* A refund that does not look at the deposit's status.
RefundCustomerDepositAgain(deposit_id) ==
    /\ (deposit_id \in 1..Len(deposits) /\ deposits[deposit_id].status = "held") => CanPost
    /\ IF deposit_id \notin 1..Len(deposits)
       THEN UNCHANGED tables /\ Record(Call("refund_customer_deposit", deposit_id, 0))
       ELSE LET dep == deposits[deposit_id]
                s0 == [DB EXCEPT !.deposits[deposit_id].status = "refunded"]
            IN \E r \in {SubledgerCode(s0, dep.customer_id, dep.vehicle_id,
                                        "deposit", "deposit", L200)} :
                 /\ Commit(PostJournal(r.s, "Customer deposit refunded",
                                       RefundLines(r.code, dep.amount_omr),
                                       dep.customer_id, dep.vehicle_id, None, TRUE, "approved"))
                 /\ Record(Call("refund_customer_deposit", deposit_id, 1))

RefundCustomerDeposit(deposit_id) ==
    /\ (deposit_id \in 1..Len(deposits) /\ deposits[deposit_id].status = "held") => CanPost
    /\ IF deposit_id \notin 1..Len(deposits) \/ deposits[deposit_id].status # "held"
       THEN UNCHANGED tables /\ Record(Call("refund_customer_deposit", deposit_id, 0))
       ELSE LET dep == deposits[deposit_id]
                s0 == [DB EXCEPT !.deposits[deposit_id].status = "refunded"]
            IN \E r \in {SubledgerCode(s0, dep.customer_id, dep.vehicle_id,
                                        "deposit", "deposit", L200)} :
                 /\ Commit(PostJournal(r.s, "Customer deposit refunded",
                                       RefundLines(r.code, dep.amount_omr),
                                       dep.customer_id, dep.vehicle_id, None, TRUE, "approved"))
                 /\ Record(Call("refund_customer_deposit", deposit_id, 1))

\* pay_auction_from_client_fund
PayAuctionFromClientFund(customer_id, amount_omr, vehicle_id) ==
    /\ CanPost
    /\ IF amount_omr <= 0
       THEN UNCHANGED tables
            /\ Record(Call("pay_auction_from_client_fund", amount_omr, None))
       ELSE \E r \in {SubledgerCode(DB, customer_id, vehicle_id, "deposit", "deposit", L200)} :
               /\ Commit(PostJournal(r.s, "Auction payment from client funds",
                                     << <<r.code, amount_omr, 0>>, <<A100, 0, amount_omr>> >>,
                                     customer_id, vehicle_id, None, TRUE, "approved"))
               /\ Record(Call("pay_auction_from_client_fund", amount_omr, nextEntryId))

CommissionAsOwnFunds == FALSE

\* record_commission_from_deposit
CommissionFlag == TRUE

RecordCommissionFromDeposit(customer_id, amount_omr, vehicle_id) ==
    /\ CanPost
    /\ IF amount_omr <= 0
       THEN UNCHANGED tables
            /\ Record(Call("record_commission_from_deposit", amount_omr, None))
       ELSE \E d \in {SubledgerCode(DB, customer_id, vehicle_id, "deposit", "deposit", L200)} :
            \E r \in {SubledgerCode(d.s, customer_id, vehicle_id, "service", "commission", R300)} :
               /\ Commit(PostJournal(r.s, "Commission deducted from client deposit",
                                     << <<d.code, amount_omr, 0>>, <<r.code, 0, amount_omr>> >>,
                                     customer_id, vehicle_id, None, CommissionFlag, "approved"))
               /\ Record(Call("record_commission_from_deposit", amount_omr, nextEntryId))

\* vehicle_statement_add_payment (POST), for a vehicle that exists
VehicleStatementAddPayment(vehicle_id, amount_val) ==
    /\ CanPost
    /\ vehicle_id \in Vehicles
    /\ IF amount_val <= 0
       THEN UNCHANGED tables /\ Record(Call("vehicle_statement_add_payment", amount_val, None))
       ELSE LET customer_id == VehicleOwner(vehicle_id)
                s0 == [DB EXCEPT !.deposits = Append(@,
                          [ customer_id |-> customer_id, vehicle_id |-> vehicle_id,
                            amount_omr |-> amount_val, status |-> "held" ])]
            IN \E r \in {SubledgerCode(s0, customer_id, vehicle_id, "deposit", "deposit", L200)} :
                 /\ Commit(PostJournal(r.s, "Vehicle payment received",
                                       << <<A100, amount_val, 0>>, <<r.code, 0, amount_val>> >>,
                                       customer_id, vehicle_id, None, TRUE, "approved"))
                 /\ Record(Call("vehicle_statement_add_payment", amount_val, nextEntryId))

\* Decimal(str(amount)) * rate, for amounts whose product is whole baisa
Convert(amount, rate_milli) == (amount * rate_milli) \div 1000

\* query(ExchangeRate).order_by(effective_at.desc()).first(): the id of a
\* row with the latest effective_at, None when the table is empty
LatestRate(rs) ==
    IF rs = <<>> THEN None
    ELSE CHOOSE i \in 1..Len(rs) : \A j \in 1..Len(rs) : rs[j].effective_at <= rs[i].effective_at

RateOrDefault(rs) == IF LatestRate(rs) = None THEN DefaultRateMilli ELSE rs[LatestRate(rs)].rate_milli

\* record_vehicle_purchase
PurchaseFlag(paid_from_bank) == ~paid_from_bank

RecordVehiclePurchase(vehicle_id, purchase_price_usd, paid_from_bank) ==
    /\ CanPost
    /\ LET amount_omr == Convert(purchase_price_usd, DefaultRateMilli)
           s1 == PostJournal(DB, "Vehicle purchased at auction",
                             << <<A200, amount_omr, 0>>,
                                IF paid_from_bank THEN <<A100, 0, amount_omr>>
                                                  ELSE <<L210, 0, amount_omr>> >>,
                             None, vehicle_id, None, PurchaseFlag(paid_from_bank), "approved")
       IN /\ Commit(s1)
          /\ Record(Call("record_vehicle_purchase", purchase_price_usd, amount_omr))

\* The category test of record_operational_cost ('custom' in cat, 'storage'
\* or 'warehouse' in cat), over the categories the model draws.
Categories == {"customs", "storage", "international_shipping"}

KindOf(category) ==
    CASE category = "customs" -> "customs"
      [] category = "storage" -> "storage"
      [] OTHER -> "freight"

\* record_operational_cost
RecordOperationalCost(vehicle_id, category, amount_value, currency, paid_from_bank) ==
    /\ CanPost
    /\ LET rate_row == IF currency # "OMR" THEN LatestRate(rates) ELSE None
           rate_val == IF currency # "OMR" THEN RateOrDefault(rates) ELSE 1000
           amount_omr == Convert(amount_value, rate_val)
           s0 == [DB EXCEPT !.expenses = Append(@,
                     [ vehicle_id |-> vehicle_id, category |-> category,
                       original_amount |-> amount_value, original_currency |-> currency,
                       amount_omr |-> amount_omr, exchange_rate_id |-> rate_row,
                       paid |-> paid_from_bank ])]
           customer_id == IF vehicle_id \in Vehicles THEN VehicleOwner(vehicle_id) ELSE None
       IN /\ IF amount_omr > 0 /\ paid_from_bank
             THEN \E r \in {SubledgerCode(s0, customer_id, vehicle_id,
                                           "logistics", KindOf(category), E200)} :
                     Commit(PostJournal(r.s, "Operational expense",
                                        << <<r.code, amount_omr, 0>>, <<A100, 0, amount_omr>> >>,
                                        customer_id, vehicle_id, None, FALSE, "approved"))
             ELSE Commit(s0)
          /\ Record(Call("record_operational_cost", amount_value, Len(s0.expenses)))

\* create_shipping_invoice
CreateShippingInvoice(customer_id, vehicle_id, shipping_cost_omr, fines_usd) ==
    /\ CanPost
    /\ LET rate_row == LatestRate(rates)
           fines_omr == Convert(fines_usd, RateOrDefault(rates))
           total == (IF shipping_cost_omr > 0 THEN shipping_cost_omr ELSE 0)
                    + (IF fines_omr > 0 THEN fines_omr ELSE 0)
           id == Len(invoices) + 1
           s0 == [DB EXCEPT !.invoices = Append(@,
                     [ customer_id |-> customer_id, vehicle_id |-> vehicle_id,
                       invoice_type |-> "SHIPPING", exchange_rate_id |-> rate_row,
                       total_omr |-> total, created_at |-> now,
                       item_vehicle_id |-> IF total > 0 THEN vehicle_id ELSE None,
                       status |-> IF total > 0 THEN "Paid" ELSE "Draft" ])]
       IN /\ IF total > 0
             THEN \E f \in {IF fines_omr > 0
                            THEN SubledgerCode(s0, customer_id, vehicle_id,
                                               "service", "commission", R300)
                            ELSE [s |-> s0, code |-> R300]} :
                  \E g \in {IF shipping_cost_omr > 0
                            THEN SubledgerCode(f.s, customer_id, vehicle_id,
                                               "logistics", "freight", E200)
                            ELSE [s |-> f.s, code |-> E200]} :
                     LET lines == << <<A100, total, 0>> >>
                              \o (IF fines_omr > 0 THEN << <<f.code, 0, fines_omr>> >> ELSE <<>>)
                              \o (IF shipping_cost_omr > 0
                                  THEN << <<g.code, 0, shipping_cost_omr>> >> ELSE <<>>)
                     IN Commit(PostJournal(g.s, "Shipping invoice payment", lines,
                                           customer_id, vehicle_id, id, FALSE, "approved"))
             ELSE Commit(s0)
          /\ Record([ op |-> "create_shipping_invoice", arg |-> total, ret |-> id,
                      shipping_cost_omr |-> shipping_cost_omr, fines_usd |-> fines_usd ])

\* ---- invoices and payments ----

MaxInvoices == 1
MaxPayments == 2

\* The status field of the invoice form.
InvoiceStatuses == {"Draft", "Unpaid"}

\* The VIN field of the payment form: empty (NoVin), the VIN of no vehicle
\* (None), or the VIN of a vehicle, written as the vehicle's id.
NoVin == -1
VinInputs == {NoVin, None} \cup Vehicles

\* An entry of the invoice with a line on an account LIKE 'R%'.
RevenueRecognized(s, invoice_id) ==
    \E i \in 1..Len(s.entries) :
        /\ s.entries[i].invoice_id = invoice_id
        /\ \E j \in 1..Len(s.entries[i].lines) :
             StartsWith(s.accounts[s.entries[i].lines[j].account_id].code, <<"R">>)

\* invoices_new (POST): the invoice carries no invoice_type and no vehicle,
\* and its items carry no vehicle.
InvoicesNew(customer_id, total) ==
    /\ Len(invoices) < MaxInvoices
    /\ Commit([DB EXCEPT !.invoices = Append(@,
                 [ customer_id |-> customer_id, vehicle_id |-> None,
                   invoice_type |-> "", exchange_rate_id |-> None,
                   total_omr |-> total, created_at |-> now,
                   item_vehicle_id |-> None,
                   status |-> "Draft" ])])
    /\ Record(Call("invoices_new", total, Len(invoices) + 1))

\* invoices_edit (POST): status and items are replaced, and a non-CAR invoice
\* marked Unpaid has its revenue recognized once.
InvoicesEdit(invoice_id, status, total) ==
    IF invoice_id \notin 1..Len(invoices)
    THEN UNCHANGED tables /\ Record(Call("invoices_edit", invoice_id, None))
    ELSE
      /\ \E s0 \in {[DB EXCEPT !.invoices[invoice_id].status = status,
                               !.invoices[invoice_id].total_omr = total,
                               !.invoices[invoice_id].item_vehicle_id = None]} :
         \E customer_id \in {invoices[invoice_id].customer_id} :
           IF /\ invoices[invoice_id].invoice_type # "CAR"
              /\ status = "Unpaid"
              /\ ~RevenueRecognized(s0, invoice_id)
              /\ total > 0
           THEN \E a \in {GetClientAccountCode(s0, customer_id, "receivable", A300)} :
                \E r \in {GetClientAccountCode(a.s, customer_id, "service", R300)} :
                   Commit(PostJournal(r.s, "Service invoice issued",
                                      << <<a.code, total, 0>>, <<r.code, 0, total>> >>,
                                      customer_id, None, invoice_id, FALSE, "approved"))
           ELSE Commit(s0)
      /\ Record(Call("invoices_edit", invoice_id, invoice_id))

\* Invoice.paid_total()
PaidTotal(pays, invoice_id) ==
    SumInts([k \in 1..Len(pays) |->
               IF pays[k].invoice_id = invoice_id THEN pays[k].amount_omr ELSE 0])

\* The latest invoice of the vehicle: order_by(created_at.desc(), id.desc()).first()
LatestInvoiceOf(invs, vehicle_id) ==
    LET mine == {i \in 1..Len(invs) : invs[i].vehicle_id = vehicle_id}
    IN IF vehicle_id = None \/ mine = {} THEN None
       ELSE CHOOSE i \in mine :
              \A k \in mine : \/ invs[k].created_at < invs[i].created_at
                              \/ invs[k].created_at = invs[i].created_at /\ k <= i

\* payments_new
PaymentsNew(invoice_id, amount, vin) ==
    /\ Len(payments) < MaxPayments
    /\ \E veh \in {IF vin \in Vehicles THEN vin ELSE None} :
       \E inv_id \in {IF invoice_id \in 1..Len(invoices) THEN invoice_id
                      ELSE LatestInvoiceOf(invoices, veh)} :
         IF vin = NoVin \/ inv_id = None
         THEN UNCHANGED tables /\ Record(Call("payments_new", amount, None))
         ELSE
           /\ \E customer_id \in {IF veh # None /\ VehicleOwner(veh) # None
                                  THEN VehicleOwner(veh)
                                  ELSE invoices[inv_id].customer_id} :
              \E s0 \in {[DB EXCEPT !.payments = Append(@,
                            [ invoice_id |-> inv_id, amount_omr |-> amount,
                              vehicle_id |-> veh, customer_id |-> customer_id ])]} :
              \* an untyped invoice whose items are linked to a vehicle becomes a CAR invoice
              \E s1 \in {IF s0.invoices[inv_id].invoice_type = ""
                            /\ s0.invoices[inv_id].item_vehicle_id # None
                         THEN [s0 EXCEPT !.invoices[inv_id].invoice_type = "CAR",
                                         !.invoices[inv_id].vehicle_id =
                                             IF @ = None
                                             THEN s0.invoices[inv_id].item_vehicle_id ELSE @]
                         ELSE s0} :
              \* paid_total() loads the payments after the new row was flushed
              \E paid \in {PaidTotal(s1.payments, inv_id) + amount} :
              \E s2 \in {[s1 EXCEPT !.invoices[inv_id].status =
                             IF paid >= s1.invoices[inv_id].total_omr
                             THEN "Paid" ELSE "Partial"]} :
              \E inv \in {s2.invoices[inv_id]} :
                IF inv.invoice_type # "" /\ inv.invoice_type # "CAR" /\ amount > 0
                THEN IF RevenueRecognized(s2, inv_id)
                     THEN \E a \in {GetClientAccountCode(s2, inv.customer_id,
                                                         "receivable", A300)} :
                            Commit(PostJournal(a.s, "Service invoice payment",
                                   << <<A100, amount, 0>>, <<a.code, 0, amount>> >>,
                                   customer_id, veh, inv_id, FALSE, "approved"))
                     ELSE \E r \in {GetClientAccountCode(s2, inv.customer_id,
                                                         "service", R300)} :
                            Commit(PostJournal(r.s, "Commission/service payment",
                                   << <<A100, amount, 0>>, <<r.code, 0, amount>> >>,
                                   customer_id, veh, inv_id, FALSE, "approved"))
                ELSE Commit(s2)
           /\ Record(Call("payments_new", amount, Len(payments) + 1))

RECURSIVE Concat(_)
Concat(seqs) == IF seqs = <<>> THEN <<>> ELSE Head(seqs) \o Concat(Tail(seqs))

\* The rows of Customer LEFT JOIN Invoice LEFT JOIN Payment for one customer:
\* an invoice appears once for each of its payments, or once with NULLs.
AgingRows(invs, pays, customer_id) ==
    Concat([i \in 1..Len(invs) |->
        IF invs[i].customer_id # customer_id THEN <<>>
        ELSE LET Mine(p) == p.invoice_id = i
                 ps == SelectSeq(pays, Mine)
             IN IF ps = <<>>
                THEN << [total_omr |-> invs[i].total_omr, amount_omr |-> 0] >>
                ELSE [k \in 1..Len(ps) |->
                        [total_omr |-> invs[i].total_omr,
                         amount_omr |-> ps[k].amount_omr]]])

\* reports, ar_aging: coalesce(sum(Invoice.total_omr), 0)
\*                    - coalesce(sum(Payment.amount_omr), 0), per customer
ArAging(invs, pays, customer_id) ==
    \* no two customers of the model share a company name, so a group is a customer
    LET rows == AgingRows(invs, pays, customer_id)
    IN SumInts([k \in 1..Len(rows) |-> rows[k].total_omr])
         - SumInts([k \in 1..Len(rows) |-> rows[k].amount_omr])

\* ---- two requests at once ----

Requests == {1, 2}

Idle == [pc |-> "idle", op |-> "", customer_id |-> None, amount_omr |-> 0,
         provisioning |-> FALSE, inserts |-> {}, type |-> "", outcome |-> ""]

\* The codes _ensure_client_accounts derives for a client.
DerivedClientCodes(cid) ==
    {ClientCode(parent, cid) : parent \in {L200, A150, R300, E200, A300}}

\* A request for record_customer_deposit starts: _get_client_account_code
\* looks the client's mapping up, and takes the way of _ensure_client_accounts
\* when it sees none; ensure_account then INSERTs the codes it does not find.
RequestLookup(r, customer_id, amount_omr) ==
    /\ CanPost
    /\ requests[r].pc = "idle"
    /\ \E absent \in {FindClientStruct(DB, customer_id) = None} :
         requests' = [requests EXCEPT ![r] =
            [ pc |-> "flush", op |-> "record_customer_deposit",
              customer_id |-> customer_id, amount_omr |-> amount_omr,
              provisioning |-> absent,
              inserts |-> IF absent
                          THEN {code \in DerivedClientCodes(customer_id) :
                                  GetAccount(accounts, code) = None}
                          ELSE {},
              type |-> "", outcome |-> "" ]]
    /\ Notes(Call("request_lookup", r, customer_id))
    /\ UNCHANGED tables

\* The unique constraints of accounts.code and of
\* client_account_structures.customer_id, met by the INSERTs of a request
\* when another request has committed the same rows in between.
UniqueViolation(r) ==
    \/ \E code \in requests[r].inserts : GetAccount(accounts, code) # None
    \/ /\ requests[r].provisioning
       /\ FindClientStruct(DB, requests[r].customer_id) # None

\* The request's session flushes and commits what it added.  On a unique
\* violation the flush raises IntegrityError, nothing catches it, and the
\* session is rolled back.
RequestCommit(r) ==
    /\ requests[r].pc = "flush"
    /\ requests[r].op = "record_customer_deposit"
    /\ LET customer_id == requests[r].customer_id
           amount_omr == requests[r].amount_omr
       IN IF UniqueViolation(r)
          THEN /\ requests' = [requests EXCEPT ![r].pc = "done",
                                               ![r].outcome = "IntegrityError"]
               /\ UNCHANGED tables
          ELSE /\ requests' = [requests EXCEPT ![r].pc = "done", ![r].outcome = "ok"]
               /\ \E s0 \in {[DB EXCEPT !.deposits = Append(@,
                                 [ customer_id |-> customer_id, vehicle_id |-> None,
                                   amount_omr |-> amount_omr, status |-> "held" ])]} :
                  \E c \in {GetClientAccountCode(s0, customer_id, "deposit", L200)} :
                     Commit(PostJournal(c.s, "Customer deposit received",
                                        << <<A100, amount_omr, 0>>, <<c.code, 0, amount_omr>> >>,
                                        customer_id, None, None,
                                        RecordCustomerDepositFlag, "approved"))
    /\ Notes(Call("request_commit", r, requests[r].customer_id))

\* The codes typed into the account form: a seeded code, a parent the
\* migration does not seed, a code that provisioning derives.
CodeInputs == {A100, A300, ClientCode(L200, 1)}

AccountTypes == {"ASSET", "LIABILITY"}

\* accounts_new (POST), up to its query for the code: a code that exists is
\* refused, another one is added to the session.
AccountsNewLookup(r, code, typ) ==
    /\ requests[r].pc = "idle"
    /\ requests' = [requests EXCEPT ![r] =
          IF GetAccount(accounts, code) # None
          THEN [Idle EXCEPT !.pc = "done", !.op = "accounts_new",
                            !.outcome = "Account code already exists"]
          ELSE [Idle EXCEPT !.pc = "flush", !.op = "accounts_new",
                            !.inserts = {code}, !.type = typ]]
    /\ Notes([op |-> "accounts_new", arg |-> r, ret |-> 0, code |-> code])
    /\ UNCHANGED tables

\* accounts_new whose commit is not held to the unique constraint.
AccountsNewCommitUnconstrained(r) ==
    /\ requests[r].pc = "flush"
    /\ requests[r].op = "accounts_new"
    /\ requests' = [requests EXCEPT ![r].pc = "done", ![r].outcome = "ok"]
    /\ Commit([DB EXCEPT !.accounts = Append(@, Acct(The(requests[r].inserts),
                                                     requests[r].type))])
    /\ Notes(Call("accounts_new_commit", r, 1))

\* accounts_new, its commit: the row is stored, or the commit raises and the
\* handler rolls back.
AccountsNewCommit(r) ==
    /\ requests[r].pc = "flush"
    /\ requests[r].op = "accounts_new"
    /\ IF UniqueViolation(r)
       THEN /\ requests' = [requests EXCEPT ![r].pc = "done",
                                            ![r].outcome = "Failed to create account"]
            /\ UNCHANGED tables
            /\ Notes(Call("accounts_new_commit", r, 0))
       ELSE /\ requests' = [requests EXCEPT ![r].pc = "done", ![r].outcome = "ok"]
            /\ Commit([DB EXCEPT !.accounts =
                          Append(@, Acct(The(requests[r].inserts), requests[r].type))])
            /\ Notes(Call("accounts_new_commit", r, 1))

\* The response is sent.
RequestEnd(r) ==
    /\ requests[r].pc = "done"
    /\ requests' = [requests EXCEPT ![r] = Idle]
    /\ Notes(Call("request_end", r, 0))
    /\ UNCHANGED tables

\* The ExchangeRate tables a deployment may hold (no handler writes the table).
RateTables ==
    { <<>>,
      << [base_currency |-> "USD", quote_currency |-> "OMR", rate_milli |-> 384,
          effective_at |-> 0] >>,
      << [base_currency |-> "USD", quote_currency |-> "OMR", rate_milli |-> 384,
          effective_at |-> 0],
         [base_currency |-> "EUR", quote_currency |-> "OMR", rate_milli |-> 420,
          effective_at |-> 1] >> }

UsdAmounts == {1000 * a : a \in Amounts}

\* The system clock moves (utcnow is not monotonic).
SetClock(t) ==
    /\ t # now
    /\ now' = t
    /\ Record(Call("clock", 0, 0))
    /\ UNCHANGED <<lockUntil, accounts, clientStructs, vehicleStructs, entries,
                   nextEntryId, nextLineId, deposits, expenses, invoices, payments,
            rates>>

Init ==
    /\ now = 0
    /\ lockUntil \in {NoLock, 0}
    /\ accounts = SeededChart
    /\ clientStructs = <<>>
    /\ vehicleStructs = <<>>
    /\ entries = <<>>
    /\ nextEntryId = 1
    /\ nextLineId = 1
    /\ deposits = <<>>
    /\ expenses = <<>>
    /\ invoices = <<>>
    /\ payments = <<>>
    /\ rates \in RateTables
    /\ lastCall = NoCall
    /\ prevCall = NoCall
    /\ requests = [r \in Requests |-> Idle]

\* ---- properties ----

Last(seq) == seq[Len(seq)]

Without(seq, i) == SubSeq(seq, 1, i - 1) \o SubSeq(seq, i + 1, Len(seq))

\* A step that is one call going straight to _post_journal.
PostingStep ==
    /\ nextEntryId' = nextEntryId + 1
    /\ lastCall'.op \in {"journals_new", "_post_journal"}

LinesOn(e, prefix) ==
    {i \in 1..Len(e.lines) : StartsWith(accounts[e.lines[i].account_id].code, prefix)}

\* C1: fund segregation.  The revenue aggregation contains nothing of a
\* client-fund entry: taking any entry flagged is_client_fund out of the
\* journal leaves the aggregation as it is, whatever else was posted before or
\* after it on the same revenue accounts.
C1_FundSegregation ==
    \A total \in {Revenue(entries, accounts)} :
        \A i \in 1..Len(entries) :
            entries[i].is_client_fund => Revenue(Without(entries, i), accounts) = total

\* A client-fund entry holding a revenue credit, followed by an own-fund entry
\* crediting the same revenue account.
C1_Witness ==
    /\ Len(entries) = 2
    /\ entries[1].is_client_fund
    /\ \E i \in LinesOn(entries[1], <<"R">>) : entries[1].lines[i].credit > 0
    /\ ~entries[2].is_client_fund
    /\ \E i \in LinesOn(entries[2], <<"R">>), j \in LinesOn(entries[1], <<"R">>) :
           entries[2].lines[i].account_id = entries[1].lines[j].account_id
    /\ Revenue(entries, accounts) > 0

EntryDebit(e) == SumInts([i \in 1..Len(e.lines) |-> e.lines[i].debit])
EntryCredit(e) == SumInts([i \in 1..Len(e.lines) |-> e.lines[i].credit])

\* The Trial Balance report: per account, the totals of debit and credit.
TrialBalance(es, accts) ==
    [ a \in 1..Len(accts) |->
        LET rows == JoinedLines(es, accts)
            Dr(r) == IF r.line.account_id = a THEN r.line.debit ELSE 0
            Cr(r) == IF r.line.account_id = a THEN r.line.credit ELSE 0
        IN [ code |-> accts[a].code, debit |-> SumSeq(rows, Dr), credit |-> SumSeq(rows, Cr) ] ]

TrialBalanceNet(es, accts) ==
    LET tb == TrialBalance(es, accts)
    IN SumInts([a \in 1..Len(tb) |-> tb[a].debit - tb[a].credit])

\* C2: every journal entry is balanced.  Over the lines stored for each entry
\* total debit equals total credit, and the nets of the trial balance sum to
\* zero.
C2_EveryEntryBalanced ==
    /\ \A i \in 1..Len(entries) : EntryDebit(entries[i]) = EntryCredit(entries[i])
    /\ TrialBalanceNet(entries, accounts) = 0

\* C3: the lock gate.  The entry a posting creates is pending when a lock date
\* is configured and the entry's date is on or before it, whatever status was
\* requested; otherwise it has the requested status, approved when none was
\* requested.
C3_LockGate ==
    [][ PostingStep =>
          LET e == Last(entries')
              requested == lastCall'.status
          IN /\ e.id = lastCall'.ret
             /\ IF lockUntil # NoLock /\ e.entry_date <= lockUntil
                THEN e.status = "pending"
                ELSE e.status = (IF requested = "" THEN "approved" ELSE requested) ]_vars

\* An entry dated on the lock date that was requested as rejected and is
\* pending.
C3_Witness ==
    /\ lastCall.op = "_post_journal"
    /\ lastCall.status = "rejected"
    /\ lockUntil # NoLock
    /\ Last(entries).id = lastCall.ret
    /\ Last(entries).entry_date = lockUntil
    /\ Last(entries).status = "pending"

\* credit - debit over the passed lines that name a revenue account
RevenueCredit(lines) ==
    SumInts([i \in 1..Len(lines) |->
               IF StartsWith(lines[i][1], <<"R">>) THEN lines[i][3] - lines[i][2] ELSE 0])

\* C8: revenue recognition of own funds.  A posting with is_client_fund false
\* that credits a revenue account by x raises the revenue aggregation by
\* exactly x, whatever was posted before.
C8_OwnFundRevenue ==
    [][ (PostingStep /\ ~lastCall'.is_client_fund)
          => Revenue(entries', accounts') = Revenue(entries, accounts) + RevenueCredit(lastCall'.lines)
      ]_vars

\* An own-fund revenue posting on top of an earlier entry.
C8_Witness ==
    /\ Len(entries) = 2
    /\ lastCall.op = "_post_journal"
    /\ ~lastCall.is_client_fund
    /\ RevenueCredit(lastCall.lines) > 0
    /\ Revenue(entries, accounts) >= RevenueCredit(lastCall.lines)
    /\ Last(entries).id = lastCall.ret

\* The passed lines whose account code exists, as (code, debit, credit).
Resolvable(lines, accts) ==
    LET Exists(l) == GetAccount(accts, l[1]) # None
    IN SelectSeq(lines, Exists)

StoredTriples(e, accts) ==
    [i \in 1..Len(e.lines) |->
        <<accts[e.lines[i].account_id].code, e.lines[i].debit, e.lines[i].credit>>]

\* C9: a missing account in a posting.  The call completes and creates its
\* entry; the lines stored for it are exactly the passed lines whose account
\* exists, in the order passed, and a line naming a missing account is not
\* among them.
C9_MissingAccountDropped ==
    [][ PostingStep =>
          /\ Len(entries') = Len(entries) + 1
          /\ Last(entries').id = lastCall'.ret
          /\ StoredTriples(Last(entries'), accounts') = Resolvable(lastCall'.lines, accounts)
      ]_vars

\* A two-line posting whose debit names an account that is not in the chart:
\* the entry exists with the credit line alone.
C9_Witness ==
    /\ lastCall.op = "journals_new"
    /\ Len(lastCall.lines) = 2
    /\ GetAccount(accounts, lastCall.lines[1][1]) = None
    /\ Last(entries).id = lastCall.ret
    /\ StoredTriples(Last(entries), accounts) = << lastCall.lines[2] >>

\* C4: idempotent provisioning.  A provisioning call for a client or a vehicle
\* whose mapping exists returns that mapping, with the account codes it had,
\* and adds no Account row and no mapping row.
C4_IdempotentProvisioning ==
    [][ /\ (lastCall'.op = "create_client_chart" /\ FindClientStruct(DB, lastCall'.arg) # None)
            => /\ lastCall'.ret = FindClientStruct(DB, lastCall'.arg)
               /\ clientStructs' = clientStructs
               /\ accounts' = accounts
        /\ (lastCall'.op = "create_vehicle_chart" /\ FindVehicleStruct(DB, lastCall'.arg) # None)
            => /\ lastCall'.ret = FindVehicleStruct(DB, lastCall'.arg)
               /\ Len(vehicleStructs') = Len(vehicleStructs)
               /\ \A i \in 1..Len(vehicleStructs) :
                     [vehicleStructs'[i] EXCEPT !.client_id = None]
                         = [vehicleStructs[i] EXCEPT !.client_id = None]
               /\ accounts' = accounts
        /\ \A c \in Customers :
               \A s1 \in {EnsureClientAccounts(DB, c)} : EnsureClientAccounts(s1, c) = s1
        /\ \A v \in Vehicles :
               \A s1 \in {EnsureVehicleAccounts(DB, v)} : EnsureVehicleAccounts(s1, v) = s1
      ]_vars

\* A client provisioned by a deposit, then provisioned again by an explicit
\* call that returns the one mapping there is.
C4_Witness ==
    /\ prevCall.op = "record_customer_deposit"
    /\ deposits[prevCall.arg].customer_id \in Customers
    /\ lastCall.op = "create_client_chart"
    /\ lastCall.arg = deposits[prevCall.arg].customer_id
    /\ lastCall.ret = 1
    /\ Len(clientStructs) = 1

\* C5: deposit round-trip.  A deposit followed by the refund of that deposit
\* leaves the credit balance of the client-deposit accounts and the revenue
\* aggregation at their values before the deposit, and both entries are
\* flagged as client funds.
C5_DepositRoundTrip ==
    (/\ prevCall.op = "record_customer_deposit"
     /\ lastCall.op = "refund_customer_deposit"
     /\ lastCall.arg = prevCall.arg
     /\ lastCall.ret = 1)
    => /\ ClientDeposits(entries, accounts) = prevCall.deposits_before
       /\ Revenue(entries, accounts) = prevCall.revenue_before
       /\ Len(entries) >= 2
       /\ entries[Len(entries) - 1].is_client_fund
       /\ entries[Len(entries)].is_client_fund

\* A deposit of a client, refunded by the next call.
C5_Witness ==
    /\ prevCall.op = "record_customer_deposit"
    /\ lastCall.op = "refund_customer_deposit"
    /\ lastCall.arg = prevCall.arg
    /\ lastCall.ret = 1
    /\ deposits[lastCall.arg].customer_id \in Customers
    /\ deposits[lastCall.arg].status = "refunded"
    /\ deposits[lastCall.arg].amount_omr = MaxAmount
    /\ Len(entries) = 2

LexBefore(a, b) ==
    \/ a.date < b.date
    \/ a.date = b.date /\ a.entry_id < b.entry_id
    \/ a.date = b.date /\ a.entry_id = b.entry_id /\ a.line_id < b.line_id

RECURSIVE SumOver(_, _)
SumOver(S, f) ==
    IF S = {} THEN 0 ELSE LET x == CHOOSE y \in S : TRUE IN f[x] + SumOver(S \ {x}, f)

\* The lines of the entries linked to a vehicle, as (entry index, line index).
VehicleLines(vehicle_id) ==
    UNION { {<<i, j>> : j \in 1..Len(entries[i].lines)} :
              i \in {k \in 1..Len(entries) : entries[k].vehicle_id = vehicle_id} }

\* C6: the running balance of a vehicle statement.  The rows are the lines of
\* the entries linked to the vehicle, each once, ordered by entry date, then
\* entry id, then line id; each balance is the sum of debit - credit up to
\* and including its row; the outstanding balance is the last balance, 0 for
\* no rows, and equals the sum of debit - credit over the vehicle's lines.
C6_RunningBalance ==
    \A v \in Vehicles :
      \A st \in {VehicleStatement(entries, accounts, v)}, ls \in {VehicleLines(v)} :
        LET net == [p \in ls |-> entries[p[1]].lines[p[2]].debit - entries[p[1]].lines[p[2]].credit]
        IN /\ Len(st) = Cardinality(ls)
           /\ {st[k].line_id : k \in 1..Len(st)} = {entries[p[1]].lines[p[2]].id : p \in ls}
           /\ \A k \in 1..(Len(st) - 1) : LexBefore(st[k], st[k + 1])
           /\ \A k \in 1..Len(st) :
                  st[k].balance = SumInts([j \in 1..k |-> st[j].debit - st[j].credit])
           /\ OutstandingBalance(st) = SumOver(ls, net)
           /\ (st = <<>> => OutstandingBalance(st) = 0)

\* A statement of four rows that begins with the later entry, dated earlier,
\* and whose balance moves away from zero and back.
C6_Witness ==
    \E v \in Vehicles :
      \E st \in {VehicleStatement(entries, accounts, v)} :
           /\ Len(st) = 4
           /\ st[1].entry_id > st[4].entry_id
           /\ st[1].date < st[4].date
           /\ st[1].balance # 0
           /\ st[3].balance # st[1].balance
           /\ OutstandingBalance(st) = st[4].balance

\* C7: commission deducted from a deposit.  Posting the commission, Dr client
\* deposit x / Cr revenue x flagged as client funds, leaves the revenue
\* aggregation as it was and takes x off the client-deposit credit balance.
C7_CommissionFromDeposit ==
    [][ (lastCall'.op = "record_commission_from_deposit" /\ nextEntryId' = nextEntryId + 1)
          => /\ Revenue(entries', accounts') = Revenue(entries, accounts)
             /\ ClientDeposits(entries', accounts') = ClientDeposits(entries, accounts) - lastCall'.arg
             /\ Last(entries').is_client_fund
      ]_vars

\* A deposit of d, then a commission of x < d: revenue 0, deposits d - x.
C7_Witness ==
    /\ prevCall.op = "record_customer_deposit"
    /\ prevCall.deposits_before = 0
    /\ lastCall.op = "record_commission_from_deposit"
    /\ lastCall.ret = 2
    /\ lastCall.arg < deposits[prevCall.arg].amount_omr
    /\ ClientDeposits(entries, accounts) = deposits[prevCall.arg].amount_omr - lastCall.arg
    /\ Revenue(entries, accounts) = 0
    /\ \E i \in LinesOn(Last(entries), <<"R">>) : Last(entries).lines[i].credit = lastCall.arg

PaidFromTrustFunds(e) ==
    \E i \in LinesOn(e, L200) : e.lines[i].debit > 0

\* C10: client-fund tagging of the catalog.  Entries of deposit receipt,
\* deposit refund, auction payment from trust funds and commission from
\* deposit are flagged is_client_fund; entries of operational costs and
\* invoice postings are not; a vehicle-purchase entry is flagged only when
\* the purchase is paid from trust funds, that is, draws on a client-deposit
\* account.
C10_CatalogTagging ==
    \A i \in 1..Len(entries) :
        LET e == entries[i]
        IN /\ e.description \in {"Customer deposit received", "Vehicle payment received",
                                 "Customer deposit refunded",
                                 "Auction payment from client funds",
                                 "Commission deducted from client deposit"}
                => e.is_client_fund
           /\ e.description \in {"Operational expense", "Shipping invoice payment"}
                => ~e.is_client_fund
           /\ (e.description = "Vehicle purchased at auction" /\ e.is_client_fund)
                => PaidFromTrustFunds(e)

\* rate(base, quote): the stored rate of the pair with the latest
\* effective_at, the configured default when the pair has none.
PairRate(rs, base, quote) ==
    LET of == {i \in 1..Len(rs) : rs[i].base_currency = base /\ rs[i].quote_currency = quote}
    IN IF of = {} THEN DefaultRateMilli
       ELSE rs[CHOOSE i \in of : \A j \in of : rs[j].effective_at <= rs[i].effective_at].rate_milli


\* C11: exchange-rate resolution.  Every conversion of a business operation
\* (a vehicle purchase price in USD, an operational cost in a foreign
\* currency, the USD fines of a shipping invoice) uses the latest stored rate
\* of its currency pair, and the configured default only when the pair has no
\* stored rate.
C11_ExchangeRateResolution ==
    /\ lastCall.op = "record_vehicle_purchase"
         => lastCall.ret = Convert(lastCall.arg, PairRate(rates, "USD", "OMR"))
    /\ \A i \in 1..Len(expenses) :
         expenses[i].original_currency # "OMR"
           => expenses[i].amount_omr
                = Convert(expenses[i].original_amount,
                          PairRate(rates, expenses[i].original_currency, "OMR"))
    /\ lastCall.op = "create_shipping_invoice"
         => invoices[lastCall.ret].total_omr
              = lastCall.shipping_cost_omr
                + Convert(lastCall.fines_usd, PairRate(rates, "USD", "OMR"))

\* C12 (AR aging): for every client, the balance of the AR-aging report is
\* the sum of the totals of the client's invoices minus the sum of the
\* payments recorded against those invoices.
C12_ArAging ==
    \A c \in Customers :
        ArAging(invoices, payments, c)
          = SumInts([i \in 1..Len(invoices) |->
                       IF invoices[i].customer_id = c THEN invoices[i].total_omr ELSE 0])
            - SumInts([k \in 1..Len(payments) |->
                       IF invoices[payments[k].invoice_id].customer_id = c
                       THEN payments[k].amount_omr ELSE 0])

\* C13 (balance sheet): client deposits is the credit balance over the L200
\* accounts of all entries, other liabilities is the credit balance over the
\* L accounts of all entries minus client deposits, assets is the debit
\* balance over the A accounts of the entries that are not client funds, and
\* equity is assets minus the two liability figures.
C13_BalanceSheet ==
    \A bs \in {BalanceSheet(entries, accounts)} :
    \A rows \in {JoinedLines(entries, accounts)} :
        LET Credit(prefix) ==
                SumInts([k \in 1..Len(rows) |->
                    IF StartsWith(rows[k].code, prefix)
                    THEN rows[k].line.credit - rows[k].line.debit ELSE 0])
            OwnDebit(prefix) ==
                SumInts([k \in 1..Len(rows) |->
                    IF StartsWith(rows[k].code, prefix) /\ ~rows[k].entry.is_client_fund
                    THEN rows[k].line.debit - rows[k].line.credit ELSE 0])
        IN /\ bs.client_deposits = Credit(L200)
           /\ bs.other_liabilities = Credit(<<"L">>) - Credit(L200)
           /\ bs.assets = OwnDebit(<<"A">>)
           /\ bs.equity = bs.assets - (bs.client_deposits + bs.other_liabilities)

\* The entry debits the bank with the payment and credits the same amount to
\* a receivable account, or to a revenue account.
IsSettlement(e, accts, p, to_receivable) ==
    /\ e.invoice_id = p.invoice_id
    /\ \E i \in 1..Len(e.lines) :
         e.lines[i].debit = p.amount_omr /\ accts[e.lines[i].account_id].code = A100
    /\ \E i \in 1..Len(e.lines) :
         /\ e.lines[i].credit = p.amount_omr
         /\ StartsWith(accts[e.lines[i].account_id].code,
                       IF to_receivable THEN A300 ELSE <<"R">>)

\* An entry of the invoice that debits a receivable and credits a revenue.
ReceivableRecognized(es, accts, invoice_id) ==
    \E k \in 1..Len(es) :
        /\ es[k].invoice_id = invoice_id
        /\ \E i, j \in 1..Len(es[k].lines) :
             /\ es[k].lines[i].debit > 0
             /\ StartsWith(accts[es[k].lines[i].account_id].code, A300)
             /\ es[k].lines[j].credit > 0
             /\ StartsWith(accts[es[k].lines[j].account_id].code, <<"R">>)

\* C14 (invoice settlement rule): a payment of a positive amount recorded
\* against an invoice that is not a CAR invoice posts one entry, Dr Bank /
\* Cr Receivable when an earlier Dr Receivable / Cr Revenue entry of the
\* invoice exists and Dr Bank / Cr Revenue when none does.
C14_SettlementRule ==
    [][ ( /\ lastCall'.op = "payments_new"
          /\ Len(payments') = Len(payments) + 1
          /\ Last(payments').amount_omr > 0
          /\ invoices'[Last(payments').invoice_id].invoice_type # "CAR" )
        => /\ Len(entries') = Len(entries) + 1
           /\ IsSettlement(Last(entries'), accounts', Last(payments'),
                           ReceivableRecognized(entries, accounts,
                                                Last(payments').invoice_id)) ]_vars

\* C16 (atomicity of a business operation): in every committed state a
\* payment of a positive amount against an invoice that is not a CAR invoice
\* has an entry of that invoice debiting the bank with its amount, and every
\* CustomerDeposit of the vehicle-payment operation has its Dr Bank /
\* Cr deposit entry.
C16_Atomicity ==
    /\ \A k \in 1..Len(payments) :
         payments[k].amount_omr > 0 /\ invoices[payments[k].invoice_id].invoice_type # "CAR"
           => \E n \in 1..Len(entries) :
                \/ IsSettlement(entries[n], accounts, payments[k], TRUE)
                \/ IsSettlement(entries[n], accounts, payments[k], FALSE)
    /\ \A d \in 1..Len(deposits) :
         \E n \in 1..Len(entries) :
            /\ entries[n].vehicle_id = deposits[d].vehicle_id
            /\ entries[n].customer_id = deposits[d].customer_id
            /\ \E i \in LinesOn(entries[n], A100) :
                 entries[n].lines[i].debit = deposits[d].amount_omr
            /\ \E i \in LinesOn(entries[n], L200) :
                 entries[n].lines[i].credit = deposits[d].amount_omr

\* C15 (provisioning race): a request that saw the client's mapping absent
\* and finds it committed by another request at its own flush ends as a
\* success, and the ledger holds one mapping row of the client and one
\* account of each code.
C15_ProvisioningRace ==
    /\ \A r \in Requests :
         requests[r].pc = "done" /\ requests[r].provisioning => requests[r].outcome = "ok"
    /\ \A c \in Customers :
         Cardinality({i \in 1..Len(clientStructs) : clientStructs[i].customer_id = c}) <= 1
    /\ \A i, j \in 1..Len(accounts) : accounts[i].code = accounts[j].code => i = j

RECURSIVE Pow10(_)
Pow10(n) == IF n = 0 THEN 1 ELSE 10 * Pow10(n - 1)

\* "-", a letter, and the id written in a fixed number of decimal digits.
Suffix(letter, id, width) ==
    <<"-", letter>> \o [i \in 1..width |-> Digits[((id \div Pow10(width - i)) % 10) + 1]]

ClientMappingOf(m) ==
    /\ m.deposit_account_code = L200 \o Suffix("C", m.customer_id, ClientPad)
    /\ m.auction_account_code = A150 \o Suffix("C", m.customer_id, ClientPad)
    /\ m.service_revenue_account_code = R300 \o Suffix("C", m.customer_id, ClientPad)
    /\ m.logistics_expense_account_code = E200 \o Suffix("C", m.customer_id, ClientPad)
    /\ m.receivable_account_code = A300 \o Suffix("C", m.customer_id, ClientPad)

VehicleMappingOf(m) ==
    /\ m.deposit_account_code = L200 \o Suffix("V", m.vehicle_id, VehiclePad)
    /\ m.auction_account_code = A150 \o Suffix("V", m.vehicle_id, VehiclePad)
    /\ m.freight_account_code = E200 \o Suffix("V", m.vehicle_id, VehiclePad)
    /\ m.customs_account_code = E220 \o Suffix("V", m.vehicle_id, VehiclePad)
    /\ m.commission_account_code = R300 \o Suffix("V", m.vehicle_id, VehiclePad)
    /\ m.storage_account_code = E230 \o Suffix("V", m.vehicle_id, VehiclePad)

\* C17 (deterministic codes): the codes of a sub-ledger are a function of the
\* parent code and of the entity id alone.  Every mapping row of the ledger,
\* and the mapping that provisioning would create or return in the current
\* state of the ledger, carries the parent code followed by the entity id in
\* fixed width, whatever was provisioned or posted before.
C17_DeterministicCodes ==
    /\ \A i \in 1..Len(clientStructs) : ClientMappingOf(clientStructs[i])
    /\ \A i \in 1..Len(vehicleStructs) : VehicleMappingOf(vehicleStructs[i])
    /\ \A c \in Customers :
         \A s1 \in {EnsureClientAccounts(DB, c)} :
            ClientMappingOf(s1.clientStructs[FindClientStruct(s1, c)])
    /\ \A v \in Vehicles :
         \A s1 \in {EnsureVehicleAccounts(DB, v)} :
            VehicleMappingOf(s1.vehicleStructs[FindVehicleStruct(s1, v)])

\* A client provisioned on a chart that already held a vehicle's accounts,
\* with entries posted.
C17_Witness ==
    /\ Len(clientStructs) = 1
    /\ Len(vehicleStructs) = 1
    /\ accounts[Len(SeededChart) + 1].vehicle_id # None
    /\ entries # <<>>

\* ---- report handlers ----

\* client_view that commits its session.
ClientViewCommitted(customer_id) ==
    /\ \E s1 \in {IF customer_id \in Customers
                  THEN EnsureClientAccounts(DB, customer_id) ELSE DB} :
         /\ Commit(s1)
         /\ Record(Call("client_view", customer_id, Len(s1.accounts)))

\* client_view: the handler provisions the client's accounts in its session,
\* reads the ledger through that session and never commits; the session is
\* removed with the request, which rolls its INSERTs back.  The call's result
\* here is the number of accounts the handler saw.
ClientView(customer_id) ==
    /\ \E s1 \in {IF customer_id \in Customers
                  THEN EnsureClientAccounts(DB, customer_id) ELSE DB} :
         Record(Call("client_view", customer_id, Len(s1.accounts)))
    /\ UNCHANGED tables

ReportTypes == {"trial_balance", "balance_sheet", "profit_loss", "ar_aging"}

\* reports: the figure shown is the call's result (of AR aging, the first row)
Reports(report_type) ==
    /\ Record(Call(report_type, 0,
         CASE report_type = "trial_balance" -> TrialBalanceNet(entries, accounts)
           [] report_type = "balance_sheet" -> BalanceSheet(entries, accounts).equity
           [] report_type = "profit_loss" -> Revenue(entries, accounts)
           [] OTHER -> ArAging(invoices, payments, The(Customers))))
    /\ UNCHANGED tables

\* vehicle_statement: the closing balance is the call's result
VehicleStatementView(vehicle_id) ==
    /\ vehicle_id \in Vehicles
    /\ Record(Call("vehicle_statement", vehicle_id,
                   OutstandingBalance(VehicleStatement(entries, accounts, vehicle_id))))
    /\ UNCHANGED tables

ReportOps == ReportTypes \cup {"client_view", "vehicle_statement"}

NoDuplicateCodes(accts) ==
    \A i, j \in 1..Len(accts) : accts[i].code = accts[j].code => i = j

\* C19 (account-code uniqueness): under every interleaving of accounts_new
\* requests and of requests that provision a sub-ledger, no two Account rows
\* share a code, and an accounts_new for a code that exists, at its query or
\* at its commit, fails and adds no row.
C19_AccountCodeUnique ==
    [][ /\ NoDuplicateCodes(accounts')
        /\ (lastCall'.op = "accounts_new" /\ GetAccount(accounts, lastCall'.code) # None)
             => /\ accounts' = accounts
                /\ requests'[lastCall'.arg].pc = "done"
                /\ requests'[lastCall'.arg].outcome # "ok"
        /\ ( /\ lastCall'.op = "accounts_new_commit"
             /\ \E code \in requests[lastCall'.arg].inserts :
                   GetAccount(accounts, code) # None )
             => /\ accounts' = accounts
                /\ requests'[lastCall'.arg].outcome # "ok" ]_vars

\* Two accounts_new requests for one code were in flight together, or one
\* together with a provisioning of the same code: one has stored the code and
\* the other was refused at its commit; and a request was refused at its query.
C19_Witness ==
    /\ \E r1, r2 \in Requests :
         /\ requests[r1].outcome = "ok"
         /\ requests[r2].op = "accounts_new"
         /\ requests[r2].outcome = "Failed to create account"
         /\ requests[r1].inserts \cap requests[r2].inserts # {}
    /\ lastCall.op = "accounts_new_commit"
    /\ Len(accounts) > Len(SeededChart)

\* The fields of an entry that are not workflow fields.
Posted(e) ==
    [ id |-> e.id, entry_date |-> e.entry_date, description |-> e.description,
      customer_id |-> e.customer_id, vehicle_id |-> e.vehicle_id,
      invoice_id |-> e.invoice_id, is_client_fund |-> e.is_client_fund,
      lines |-> e.lines ]

\* C20 (journal entries are append-only): every entry of the journal is still
\* in the journal after any step, with its date, description, links,
\* is_client_fund flag and lines as they were posted; only its status, its
\* approver and its approval time may differ.
C20_AppendOnly ==
    [][ \A i \in 1..Len(entries) :
          \E j \in 1..Len(entries') : Posted(entries'[j]) = Posted(entries[i]) ]_vars

\* C21 (an entry owns at least one line): every journal entry of the ledger
\* has a non-empty collection of lines.
C21_NonEmptyLines ==
    \A i \in 1..Len(entries) : entries[i].lines # <<>>

\* C22 (no overdraft of trust funds): the credit balance of every deposit
\* account, of a client, of a vehicle or the parent, is never negative.
C22_NoOverdraft ==
    \A tb \in {TrialBalance(entries, accounts)} :
        \A a \in 1..Len(tb) :
            StartsWith(tb[a].code, L200) => tb[a].credit - tb[a].debit >= 0

\* The descriptions of the entries that the catalog operations post with a
\* debit and a credit line.
TwoLineDescriptions ==
    { "Customer deposit received", "Customer deposit refunded",
      "Auction payment from client funds", "Commission deducted from client deposit",
      "Vehicle payment received", "Vehicle purchased at auction", "Operational expense",
      "Service invoice issued", "Service invoice payment", "Commission/service payment" }

\* C23 (catalog operations supply balanced lines): an entry posted by a
\* catalog operation, by the revenue recognition of an invoice or by the
\* settlement of a payment, all of whose lines were stored, has total debit
\* equal to total credit.
C23_CatalogBalanced ==
    \A i \in 1..Len(entries) :
        \/ entries[i].description \in TwoLineDescriptions /\ Len(entries[i].lines) = 2
        \/ entries[i].description = "Shipping invoice payment"
        => EntryDebit(entries[i]) = EntryCredit(entries[i])

\* A shipping invoice with fines was posted on three lines and a payment
\* against it was settled, or a deposit was refunded.
C23_Witness ==
    \/ /\ \E i \in 1..Len(entries) :
            entries[i].description = "Shipping invoice payment" /\ Len(entries[i].lines) = 3
       /\ \E i \in 1..Len(entries) :
            entries[i].description = "Service invoice payment" /\ Len(entries[i].lines) = 2
    \/ /\ \E i \in 1..Len(entries) :
            entries[i].description = "Customer deposit refunded" /\ Len(entries[i].lines) = 2
            /\ EntryDebit(entries[i]) > 0
       /\ \E i \in 1..Len(entries) :
            entries[i].description = "Service invoice issued" /\ Len(entries[i].lines) = 1

\* The amounts of the deposits that are held.
HeldTotal(deps) ==
    LET Val(d) == IF d.status = "held" THEN d.amount_omr ELSE 0
    IN SumSeq(deps, Val)

\* C24 (held deposits match the ledger): after deposits and refunds only,
\* the credit balance over the accounts under L200 equals the sum of the
\* amounts of the deposits whose status is 'held'.
C24_HeldDepositsMatchLedger ==
    ClientDeposits(entries, accounts) = HeldTotal(deposits)

\* A deposit was received and then refunded, and both entries are in the ledger.
C24_Witness ==
    /\ \E i \in 1..Len(deposits) : deposits[i].status = "refunded" /\ deposits[i].amount_omr > 0
    /\ \E i \in 1..Len(entries) :
         entries[i].description = "Customer deposit refunded" /\ Len(entries[i].lines) = 2
    /\ HeldTotal(deposits) = 0

\* The net debit on the receivable accounts from the entries of an invoice.
ReceivableNet(es, accts, invoice_id) ==
    LET Val(r) == IF r.entry.invoice_id = invoice_id /\ StartsWith(r.code, A300)
                  THEN r.line.debit - r.line.credit ELSE 0
    IN SumSeq(JoinedLines(es, accts), Val)

\* The entries of an invoice that carry a line on a revenue account.
RevenueEntries(es, accts, invoice_id) ==
    { k \in 1..Len(es) :
        /\ es[k].invoice_id = invoice_id
        /\ \E j \in 1..Len(es[k].lines) :
             StartsWith(accts[es[k].lines[j].account_id].code, <<"R">>) }

\* C25 (receivable never over-settled): for every invoice that is not a CAR
\* invoice the net debit on the receivable from the entries of the invoice is
\* never negative, and at most one entry of the invoice carries a
\* revenue-account line.
C25_ReceivableNotOverSettled ==
    \A n \in 1..Len(invoices) :
        invoices[n].invoice_type # "CAR"
        => /\ ReceivableNet(entries, accounts, n) >= 0
           /\ Cardinality(RevenueEntries(entries, accounts, n)) <= 1

\* The entry of the journal with the given id, as a set of at most one.
EntryById(es, id) == { es[i] : i \in { j \in 1..Len(es) : es[j].id = id } }

\* C26 (approval workflow): the status of an entry changes only when
\* journals_approve is applied to it, which sets 'approved' with the approver
\* and the approval time; a pending entry stays pending until then or until
\* it is deleted; and an entry is 'rejected' only when the caller of the
\* posting asked for that status.
C26_ApprovalWorkflow ==
    [][ /\ \A i \in 1..Len(entries) : \A e \in EntryById(entries', entries[i].id) :
             IF lastCall'.op = "journals_approve" /\ lastCall'.ret = e.id
             THEN /\ e.status = "approved"
                  /\ e.approved_by_user_id = CurrentUser
                  /\ e.approved_at = now
             ELSE /\ e.status = entries[i].status
                  /\ e.approved_by_user_id = entries[i].approved_by_user_id
                  /\ e.approved_at = entries[i].approved_at
        /\ \A j \in 1..Len(entries') :
             (EntryById(entries, entries'[j].id) = {} /\ entries'[j].status = "rejected")
             => lastCall'.op = "_post_journal" /\ lastCall'.status = "rejected" ]_vars

\* An entry posted inside the locked period has been approved.
C26_Witness ==
    /\ lastCall.op = "journals_approve"
    /\ \E i \in 1..Len(entries) :
         /\ entries[i].id = lastCall.ret
         /\ lockUntil # NoLock /\ entries[i].entry_date <= lockUntil
         /\ entries[i].status = "approved"
         /\ entries[i].approved_by_user_id = CurrentUser

\* C27 (a deposit is refunded at most once): refund_customer_deposit on a
\* deposit that does not exist or is not 'held' returns False and changes no
\* record; a refund that returns True finds the deposit held, marks it
\* refunded and posts one entry.
C27_RefundAtMostOnce ==
    [][ lastCall'.op = "refund_customer_deposit"
        => IF lastCall'.arg \in 1..Len(deposits) /\ deposits[lastCall'.arg].status = "held"
           THEN /\ lastCall'.ret = 1
                /\ deposits'[lastCall'.arg].status = "refunded"
                /\ Len(entries') = Len(entries) + 1
                /\ Last(entries').description = "Customer deposit refunded"
           ELSE /\ lastCall'.ret = 0
                /\ UNCHANGED tables ]_vars

\* A second refund of a refunded deposit was turned down.
C27_Witness ==
    /\ lastCall.op = "refund_customer_deposit" /\ lastCall.ret = 0
    /\ lastCall.arg \in 1..Len(deposits)
    /\ deposits[lastCall.arg].status = "refunded"
    /\ Cardinality({ i \in 1..Len(entries) :
                       entries[i].description = "Customer deposit refunded" }) = 1

\* The journal with every entry approved.
AsApproved(es) == [ i \in 1..Len(es) |-> [es[i] EXCEPT !.status = "approved"] ]

\* The revenue aggregation, the client-deposit balance, the trial balance and
\* the statements of the vehicles.
ReportValues(es, accts) ==
    [ revenue |-> Revenue(es, accts),
      client_deposits |-> ClientDeposits(es, accts),
      trial_balance |-> TrialBalance(es, accts),
      statements |-> [ v \in Vehicles |-> VehicleStatement(es, accts, v) ] ]

\* C28 (report values do not depend on entry status): the reports over the
\* journal are those over the same journal with every entry approved, and
\* journals_approve changes no report value.
C28_ReportsIgnoreStatus ==
    [][ \A after \in {ReportValues(entries', accounts')} :
          /\ after = ReportValues(AsApproved(entries'), accounts')
          /\ (lastCall'.op = "journals_approve")
             => after = ReportValues(entries, accounts) ]_vars

\* A deposit received inside the locked period was pending, is in the
\* deposit balance, and has been approved.
C28_Witness ==
    /\ lastCall.op = "journals_approve"
    /\ ClientDeposits(entries, accounts) > 0
    /\ \E i \in 1..Len(entries) :
         /\ entries[i].id = lastCall.ret
         /\ entries[i].description = "Customer deposit received"
         /\ lockUntil # NoLock /\ entries[i].entry_date <= lockUntil
         /\ entries[i].status = "approved"

\* The account of the code exists and has the type.
WellTyped(accts, code, typ) ==
    \E a \in 1..Len(accts) : accts[a].code = code /\ accts[a].type = typ

\* C29 (sub-ledger mappings point at well-typed accounts): every code of a
\* client or vehicle mapping resolves to an account of the type of its role.
C29_MappingsWellTyped ==
    /\ \A i \in 1..Len(clientStructs) : \A m \in {clientStructs[i]} :
         /\ WellTyped(accounts, m.deposit_account_code, "LIABILITY")
         /\ WellTyped(accounts, m.auction_account_code, "ASSET")
         /\ WellTyped(accounts, m.service_revenue_account_code, "REVENUE")
         /\ WellTyped(accounts, m.logistics_expense_account_code, "EXPENSE")
         /\ WellTyped(accounts, m.receivable_account_code, "ASSET")
    /\ \A i \in 1..Len(vehicleStructs) : \A m \in {vehicleStructs[i]} :
         /\ WellTyped(accounts, m.deposit_account_code, "LIABILITY")
         /\ WellTyped(accounts, m.auction_account_code, "ASSET")
         /\ WellTyped(accounts, m.freight_account_code, "EXPENSE")
         /\ WellTyped(accounts, m.customs_account_code, "EXPENSE")
         /\ WellTyped(accounts, m.commission_account_code, "REVENUE")
         /\ WellTyped(accounts, m.storage_account_code, "EXPENSE")

\* The codes of a client mapping and of a vehicle mapping.
ClientCodesOf(m) ==
    { m.deposit_account_code, m.auction_account_code, m.service_revenue_account_code,
      m.logistics_expense_account_code, m.receivable_account_code }

VehicleCodesOf(m) ==
    { m.deposit_account_code, m.auction_account_code, m.freight_account_code,
      m.customs_account_code, m.commission_account_code, m.storage_account_code }

\* Ids of entities to provision: small ones, and ones as wide as the padding
\* of the codes and wider.
SubledgerIds == {1, 2, 10, 99999, 100000, 1000000}

\* The codes of the mapping that provisioning creates or returns for the
\* entity, in the current state of the ledger.
ProvisionedClientCodes(cid) ==
    The({ ClientCodesOf(s1.clientStructs[FindClientStruct(s1, cid)])
          : s1 \in {EnsureClientAccounts(DB, cid)} })

ProvisionedVehicleCodes(vid) ==
    The({ VehicleCodesOf(s1.vehicleStructs[FindVehicleStruct(s1, vid)])
          : s1 \in {EnsureVehicleAccounts(DB, vid)} })

\* C30 (sub-ledgers never share an account): the codes of the mappings of two
\* distinct entities, two clients, two vehicles or a client and a vehicle of
\* any ids, are disjoint, and the codes within one mapping are pairwise
\* distinct; for the mappings of the ledger and for those that provisioning
\* yields.
C30_SubledgersDisjoint ==
    /\ \A i \in 1..Len(clientStructs) : \A j \in 1..Len(vehicleStructs) :
         ClientCodesOf(clientStructs[i]) \cap VehicleCodesOf(vehicleStructs[j]) = {}
    /\ \A i, j \in 1..Len(clientStructs) :
         i # j => ClientCodesOf(clientStructs[i]) \cap ClientCodesOf(clientStructs[j]) = {}
    /\ \A i, j \in 1..Len(vehicleStructs) :
         i # j => VehicleCodesOf(vehicleStructs[i]) \cap VehicleCodesOf(vehicleStructs[j]) = {}
    /\ \A cs \in {[c \in SubledgerIds |-> ProvisionedClientCodes(c)]} :
       \A vs \in {[v \in SubledgerIds |-> ProvisionedVehicleCodes(v)]} :
         /\ \A c \in SubledgerIds : Cardinality(cs[c]) = 5
         /\ \A v \in SubledgerIds : Cardinality(vs[v]) = 6
         /\ \A c, v \in SubledgerIds : cs[c] \cap vs[v] = {}
         /\ \A c, d \in SubledgerIds : c # d => cs[c] \cap cs[d] = {} /\ vs[c] \cap vs[d] = {}

\* A client and a vehicle of the same numeric id are both provisioned.
C30_Witness ==
    /\ Len(clientStructs) = 1
    /\ Len(vehicleStructs) = 1
    /\ clientStructs[1].customer_id = vehicleStructs[1].vehicle_id

IdInputs == 1..MaxEntries
CustomerInputs == {None} \cup Customers
VehicleInputs == {None} \cup Vehicles

\* A call about no client, about a client, or about a client's vehicle.
Contexts == {<<None, None>>} \cup {<<c, None>> : c \in Customers}
            \cup {<<VehicleOwner(v), v>> : v \in Vehicles}

\* Postings straight into the journal, at any time of the clock.
NextLedger ==
    \/ \E t \in Times : SetClock(t)
    \/ \E lines \in ManualLineLists, f \in BOOLEAN : JournalsNew(lines, f)
    \/ \E x \in Amounts, f \in BOOLEAN, st \in RequestedStatuses :
          PostJournalCall(x, None, f, st)

SpecLedger == Init /\ [][NextLedger]_vars

\* Client funds: provisioning, deposits, refunds and what is drawn from them.
NextTrust ==
    \/ \E c \in Customers : CreateClientChart(c)
    \/ \E v \in Vehicles, c \in CustomerInputs : CreateVehicleChart(v, c)
    \/ \E cv \in Contexts, x \in Amounts : RecordCustomerDeposit(cv[1], x, cv[2])
    \/ \E d \in IdInputs : CanPost /\ RefundCustomerDeposit(d)
    \/ \E cv \in Contexts, x \in Amounts : RecordCommissionFromDeposit(cv[1], x, cv[2])

SpecTrust == Init /\ [][NextTrust]_vars

\* What a vehicle statement is made of, on a clock that can be set back.
NextStatement ==
    \/ \E t \in Times : SetClock(t)
    \/ \E cv \in Contexts, x \in Amounts : RecordCustomerDeposit(cv[1], x, cv[2])
    \/ \E c \in Customers, v \in Vehicles, x \in Amounts : PayAuctionFromClientFund(c, x, v)
    \/ \E c \in Customers, v \in Vehicles, x \in Amounts : RecordCommissionFromDeposit(c, x, v)
    \/ \E v \in Vehicles, x \in 0..MaxAmount : VehicleStatementAddPayment(v, x)

SpecStatement == Init /\ [][NextStatement]_vars

\* The catalog of business postings.
NextCatalog ==
    \/ \E c \in CustomerInputs, v \in VehicleInputs, x \in Amounts : RecordCustomerDeposit(c, x, v)
    \/ \E d \in IdInputs : CanPost /\ RefundCustomerDeposit(d)
    \/ \E c \in CustomerInputs, v \in VehicleInputs, x \in 0..MaxAmount :
          PayAuctionFromClientFund(c, x, v)
    \/ \E c \in CustomerInputs, v \in VehicleInputs, x \in 0..MaxAmount :
          RecordCommissionFromDeposit(c, x, v)
    \/ \E v \in Vehicles, x \in 0..MaxAmount : VehicleStatementAddPayment(v, x)
    \/ \E v \in Vehicles, x \in UsdAmounts, b \in BOOLEAN : RecordVehiclePurchase(v, x, b)
    \/ \E v \in VehicleInputs, cat \in Categories, b \in BOOLEAN :
          \/ \E x \in Amounts : RecordOperationalCost(v, cat, x, "OMR", b)
          \/ \E x \in UsdAmounts : RecordOperationalCost(v, cat, x, "USD", b)
    \/ \E c \in CustomerInputs, v \in VehicleInputs, x \in 0..1, y \in {0, 1000} :
          CreateShippingInvoice(c, v, x, y)

SpecCatalog == Init /\ [][NextCatalog]_vars

\* Invoices, their edits and their payments.
NextInvoices ==
    \/ \E c \in CustomerInputs, x \in Amounts : InvoicesNew(c, x)
    \/ \E i \in IdInputs, st \in InvoiceStatuses, x \in 0..1 : InvoicesEdit(i, st, x)
    \/ \E i \in {None} \cup IdInputs, x \in 0..MaxAmount, vin \in VinInputs :
         PaymentsNew(i, x, vin)
    \/ \E c \in Customers, v \in Vehicles, y \in {0, 1000} :
         Len(invoices) < MaxInvoices /\ CreateShippingInvoice(c, v, 1, y)
    \/ \E v \in Vehicles, x \in 0..1 : VehicleStatementAddPayment(v, x)

SpecInvoices == Init /\ [][NextInvoices]_vars


\* Postings that move the asset and the liability accounts.
NextBalance ==
    \/ \E lines \in BalanceLineLists, f \in BOOLEAN : JournalsNew(lines, f)
    \/ \E cv \in Contexts, x \in Amounts : RecordCustomerDeposit(cv[1], x, cv[2])
    \/ \E d \in IdInputs : CanPost /\ RefundCustomerDeposit(d)
    \/ \E v \in Vehicles, x \in UsdAmounts, b \in BOOLEAN : RecordVehiclePurchase(v, x, b)

SpecBalance == Init /\ [][NextBalance]_vars


\* Two requests for a deposit, interleaved.
NextRace ==
    \/ \E r \in Requests, c \in Customers, x \in Amounts : RequestLookup(r, c, x)
    \/ \E r \in Requests : RequestCommit(r)
    \/ \E r \in Requests : RequestEnd(r)

SpecRace == Init /\ [][NextRace]_vars


\* Reports run between postings.
NextReports ==
    \/ \E lines \in BalanceLineLists : JournalsNew(lines, FALSE)
    \/ \E cv \in Contexts, x \in Amounts : RecordCustomerDeposit(cv[1], x, cv[2])
    \/ \E c \in CustomerInputs : ClientView(c)
    \/ \E rt \in ReportTypes : Reports(rt)
    \/ \E v \in Vehicles : VehicleStatementView(v)

SpecReports == Init /\ [][NextReports]_vars


\* Requests that create accounts by hand and requests that provision,
\* interleaved.
NextAccounts ==
    \/ \E r \in Requests, code \in CodeInputs, typ \in AccountTypes :
         AccountsNewLookup(r, code, typ)
    \/ \E r \in Requests : AccountsNewCommit(r)
    \/ \E r \in Requests, c \in Customers : RequestLookup(r, c, 1)
    \/ \E r \in Requests : RequestCommit(r)
    \/ \E r \in Requests : RequestEnd(r)

SpecAccounts == Init /\ [][NextAccounts]_vars


\* The journal screens: post, approve, delete.
NextJournal ==
    \/ \E t \in Times : SetClock(t)
    \/ \E lines \in ManualLineLists, f \in BOOLEAN : JournalsNew(lines, f)
    \/ \E x \in Amounts, st \in RequestedStatuses : PostJournalCall(x, None, FALSE, st)
    \/ \E e \in IdInputs : JournalsApprove(e)
    \/ \E e \in IdInputs : JournalsDelete(e)

SpecJournal == Init /\ [][NextJournal]_vars


\* Every operation of the posting catalog, with the invoice screens.
NextPostings ==
    \/ \E cv \in Contexts : RecordCustomerDeposit(cv[1], 1, cv[2])
    \/ CanPost /\ RefundCustomerDeposit(1)
    \/ \E v \in VehicleInputs : PayAuctionFromClientFund(1, 1, v)
    \/ \E v \in VehicleInputs : RecordCommissionFromDeposit(1, 1, v)
    \/ \E v \in Vehicles : VehicleStatementAddPayment(v, 1)
    \/ \E v \in Vehicles, b \in BOOLEAN : RecordVehiclePurchase(v, 1000, b)
    \/ \E v \in VehicleInputs, cat \in Categories : RecordOperationalCost(v, cat, 1, "OMR", TRUE)
    \/ \E c \in Customers, v \in Vehicles, y \in {0, 1000} :
         Len(invoices) < MaxInvoices /\ CreateShippingInvoice(c, v, 1, y)
    \/ \E c \in CustomerInputs : InvoicesNew(c, 1)
    \/ InvoicesEdit(1, "Unpaid", 1)
    \/ \E vin \in {None} \cup Vehicles : PaymentsNew(1, 1, vin)

SpecPostings == Init /\ [][NextPostings]_vars


\* Deposits and their refunds, and nothing else.
NextDeposits ==
    \/ \E cv \in Contexts, x \in Amounts : RecordCustomerDeposit(cv[1], x, cv[2])
    \/ \E i \in IdInputs : RefundCustomerDeposit(i)

SpecDeposits == Init /\ [][NextDeposits]_vars


\* Postings inside and outside the locked period, and their approval.
NextApproval ==
    \/ \E t \in Times : SetClock(t)
    \/ \E cv \in Contexts : RecordCustomerDeposit(cv[1], 1, cv[2])
    \/ \E v \in VehicleInputs : PostJournalCall(1, v, FALSE, "approved")
    \/ \E e \in IdInputs : JournalsApprove(e)

SpecApproval == Init /\ [][NextApproval]_vars


\* The whole program.
Next ==
    \/ \E c \in CustomerInputs : CreateClientChart(c)
    \/ \E v \in VehicleInputs, c \in CustomerInputs : CreateVehicleChart(v, c)
    \/ NextLedger
    \/ NextTrust
    \/ NextCatalog
    \/ NextStatement
    \/ NextInvoices
    \/ NextBalance
    \/ NextReports
    \/ NextJournal
    \/ NextRace
    \/ NextAccounts
    \/ NextPostings
    \/ NextDeposits
    \/ NextApproval

Spec == Init /\ [][Next]_vars

====
